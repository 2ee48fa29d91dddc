------------------------------- MODULE Loader -------------------------------
(***************************************************************************)
(* process/spawn2.c and posix_spawn/spawni.c: functions of other DLLs that *)
(* are looked up at the first call and kept in static pointers.            *)
(*                                                                         *)
(* wait() and its like come from LIBCx, else from the static LIBC;         *)
(* __waitpid() from LIBCx, else from the LIBC DLL, libcn0 or libc066;      *)
(* DosWaitChild() from LIBCx, else from DOSCALLS; spawn2() from LIBCx or   *)
(* not at all; posix_spawn() and posix_spawnp() from the LIBC DLL.  There  *)
(* is no lock: every access to a pointer or a handle is a step.            *)
(***************************************************************************)
EXTENDS FiniteSets

CONSTANTS
  Threads,
  Present       \* sets of the DLLs that there may be

VARIABLES
  dlls,         \* the DLLs that there are
  libcx, doscalls,      \* the static handles of spawn2.c
  libc,         \* the static libc_handle of spawn2.c and that of spawni.c
  ptr,          \* the static pointers
  pc, fn,       \* where each thread is, and which function it called
  got,          \* where its last call went to
  raced         \* ghost: functions called while another call was looking them up

vars == <<dlls, libcx, libc, doscalls, ptr, pc, fn, got, raced>>

\* wait() stands for waitpid(), wait3(), wait4() and waitid(), which are like it.
Functions == {"wait", "__waitpid", "DosWaitChild", "spawn2", "posix_spawn", "posix_spawnp"}

Unset == "-1"
Null == "NULL"
Unknown(f) == IF f = "wait" THEN Null ELSE Unset

Init ==
  /\ dlls \in Present
  /\ libcx = Unset /\ doscalls = Unset
  /\ libc = [file \in {"spawn2.c", "spawni.c"} |-> Unset]
  /\ ptr = [f \in Functions |-> Unknown(f)]
  /\ pc = [t \in Threads |-> "out"]
  /\ fn = [t \in Threads |-> "wait"]
  /\ got = [t \in Threads |-> Unset]
  /\ raced = {}

Goto(t, label) == pc' = [pc EXCEPT ![t] = label]
Return(t, where) == got' = [got EXCEPT ![t] = where] /\ Goto(t, "out")
Store(f, value) == ptr' = [ptr EXCEPT ![f] = value]
DlOpen(dll) == IF dll \in dlls THEN dll ELSE Null

\* posix_spawnp() is looked up with posix_spawn(), whose pointer is the one tested.
Tested(f) == IF f = "posix_spawnp" THEN "posix_spawn" ELSE f
File(f) == IF Tested(f) = "posix_spawn" THEN "spawni.c" ELSE "spawn2.c"

\* The call: the pointer is tested.
Begin(t, f) ==
  /\ pc[t] = "out"
  /\ fn' = [fn EXCEPT ![t] = f]
  /\ got' = [got EXCEPT ![t] = Unset]
  /\ Goto(t, IF ptr[Tested(f)] # Unknown(f) THEN "check"
             ELSE IF Tested(f) = "posix_spawn" THEN "libc" ELSE "libcx")
  /\ raced' = raced \cup {Tested(f) : u \in {v \in Threads :
                 Tested(fn[v]) = Tested(f) /\ pc[v] \notin {"out", "check", "call"}}}
  /\ UNCHANGED <<dlls, libcx, libc, doscalls, ptr>>

\* load_libcx_sym(): the handle, and then the symbol.
LoadLibcx(t) ==
  /\ pc[t] = "libcx"
  /\ libcx' = IF libcx = Unset THEN DlOpen("libcx0") ELSE libcx
  /\ Goto(t, "libcx sym")
  /\ UNCHANGED <<dlls, libc, doscalls, ptr, fn, got, raced>>

\* Mutant: without a fallback.
SymLibcxOnly(t) ==
  /\ pc[t] = "libcx sym"
  /\ Store(fn[t], libcx)
  /\ Goto(t, "check")
  /\ UNCHANGED <<dlls, libcx, libc, doscalls, fn, got, raced>>

\* What load_libcx_sym() returns is stored at once, also when it is NULL.
SymLibcx(t) ==
  /\ pc[t] = "libcx sym"
  /\ Store(fn[t], libcx)
  /\ Goto(t, IF fn[t] = "spawn2" THEN "check" ELSE "fallback")
  /\ UNCHANGED <<dlls, libcx, libc, doscalls, fn, got, raced>>

\* The pointer is tested again.
Fallback(t) ==
  /\ pc[t] = "fallback"
  /\ Goto(t, CASE ptr[fn[t]] # Null -> "check"
               [] ptr[fn[t]] = Null /\ fn[t] = "wait" -> "std"
               [] ptr[fn[t]] = Null /\ fn[t] = "__waitpid" -> "libc"
               [] ptr[fn[t]] = Null /\ fn[t] = "DosWaitChild" -> "doscalls")
  /\ UNCHANGED <<dlls, libcx, libc, doscalls, ptr, fn, got, raced>>

Std(t) ==
  /\ pc[t] = "std"
  /\ Store("wait", "std")
  /\ Goto(t, "check")
  /\ UNCHANGED <<dlls, libcx, libc, doscalls, fn, got, raced>>

\* load_libc_sym() stores the handle of libcn0 before it tries libc066.
LoadLibc(t) ==
  LET file == File(fn[t])
      handle == IF libc[file] = Unset THEN DlOpen("libcn0") ELSE libc[file]
  IN  /\ pc[t] = "libc"
      /\ libc' = [libc EXCEPT ![file] = handle]
      /\ Goto(t, IF libc[file] = Unset /\ handle = Null THEN "libc066" ELSE "libc sym")
      /\ UNCHANGED <<dlls, libcx, doscalls, ptr, fn, got, raced>>
LoadLibc066(t) ==
  /\ pc[t] = "libc066"
  /\ libc' = [libc EXCEPT ![File(fn[t])] = DlOpen("libc066")]
  /\ Goto(t, "libc sym")
  /\ UNCHANGED <<dlls, libcx, doscalls, ptr, fn, got, raced>>
SymLibc(t) ==
  /\ pc[t] = "libc sym"
  /\ Store(Tested(fn[t]), libc[File(fn[t])])
  /\ Goto(t, IF fn[t] = "__waitpid" THEN "check" ELSE "second sym")
  /\ UNCHANGED <<dlls, libcx, libc, doscalls, fn, got, raced>>

\* load_posix_spawn() has a second symbol.
SymSecond(t) ==
  /\ pc[t] = "second sym"
  /\ Store("posix_spawnp", libc["spawni.c"])
  /\ Goto(t, "check")
  /\ UNCHANGED <<dlls, libcx, libc, doscalls, fn, got, raced>>

\* load_doscalls_sym(); DOSCALLS is always there.
SymDoscalls(t) ==
  /\ pc[t] = "doscalls"
  /\ doscalls' = "doscalls"
  /\ Store("DosWaitChild", "doscalls")
  /\ Goto(t, "check")
  /\ UNCHANGED <<dlls, libcx, libc, fn, got, raced>>

\* All but wait() look once more whether there is a function to call.
CheckPtr(t) ==
  /\ pc[t] = "check"
  /\ IF \/ fn[t] # "wait" /\ ptr[fn[t]] = Null
        \/ Tested(fn[t]) = "posix_spawn" /\ Null \in {ptr["posix_spawn"], ptr["posix_spawnp"]}
       THEN Return(t, "ENOSYS")
       ELSE Goto(t, "call") /\ UNCHANGED got
  /\ UNCHANGED <<dlls, libcx, libc, doscalls, ptr, fn, raced>>

\* The call reads the pointer again: a call through NULL or -1 ends the program.
CallPtr(t) ==
  /\ pc[t] = "call"
  /\ Return(t, ptr[fn[t]])
  /\ UNCHANGED <<dlls, libcx, libc, doscalls, ptr, fn, raced>>

Next ==
  \E t \in Threads :
    \/ \E f \in Functions : Begin(t, f)
    \/ LoadLibcx(t) \/ SymLibcx(t) \/ Fallback(t) \/ Std(t)
    \/ LoadLibc(t) \/ LoadLibc066(t) \/ SymLibc(t) \/ SymSecond(t)
    \/ SymDoscalls(t) \/ CheckPtr(t) \/ CallPtr(t)

Spec == Init /\ [][Next]_vars

TypeOK ==
  /\ libcx \in {Unset, Null, "libcx0"} /\ doscalls \in {Unset, "doscalls"}
  /\ \A file \in DOMAIN libc : libc[file] \in {Unset, Null, "libcn0", "libc066"}
  /\ \A f \in Functions :
       ptr[f] \in {Unset, Null, "libcx0", "std", "libcn0", "libc066", "doscalls"}
  /\ raced \subseteq Functions

\* Where a call should go to, given the DLLs.
Wanted(f) ==
  LET libcDll == IF "libcn0" \in dlls THEN "libcn0"
                 ELSE IF "libc066" \in dlls THEN "libc066" ELSE "ENOSYS"
  IN  CASE f \in {"posix_spawn", "posix_spawnp"} -> libcDll
        [] f \notin {"posix_spawn", "posix_spawnp"} /\ "libcx0" \in dlls -> "libcx0"
        [] f = "wait" /\ "libcx0" \notin dlls -> "std"
        [] f = "__waitpid" /\ "libcx0" \notin dlls -> libcDll
        [] f = "DosWaitChild" /\ "libcx0" \notin dlls -> "doscalls"
        [] f = "spawn2" /\ "libcx0" \notin dlls -> "ENOSYS"

\* With LIBCx every wait and spawn2() goes to LIBCx, so that a child of spawn2() is
\* waited for where it is known, even when first calls race.  Without it, and for
\* posix_spawn() always, calls go to the fallback as long as the first calls of the
\* function do not overlap; spawn2() alone bears that too.
CallsLoaded ==
  \A t \in Threads :
    got[t] # Unset =>
      \/ got[t] = Wanted(fn[t])
      \/ /\ Tested(fn[t]) \in raced /\ fn[t] # "spawn2"
         /\ "libcx0" \notin dlls \/ Tested(fn[t]) = "posix_spawn"
=============================================================================
