---------------------------- MODULE Library_proofs ---------------------------
(***************************************************************************)
(* Proofs about the five smaller parts, for any number of descriptors,     *)
(* threads, items, pipes and pages: for each part an invariant that every  *)
(* step keeps, and what follows from it.                                   *)
(***************************************************************************)
EXTENDS Library, SequenceTheorems, FiniteSetTheorems, WellFoundedInduction, TLAPS

-----------------------------------------------------------------------------
(***************************************************************************)
(* pipe().                                                                 *)
(***************************************************************************)
\* The thread has the name of the pipe it makes.
Named(t) == pipePc[t] \in {"create", "connect", "open", "done"}

PipeShape ==
  /\ pipes \in [DOMAIN pipes -> Nat]
  /\ \A p \in DOMAIN pipes : pipes[p] <= MaxPipes
  /\ pipePc \in [PipeThreads -> {"out", "name", "create", "connect", "open", "done"}]
  /\ name \in [PipeThreads -> {<<>>} \cup (Nat \X Nat)]
  /\ ends \in [PipeThreads -> [read : {<<>>} \cup (Nat \X Nat), write : {<<>>} \cup (Nat \X Nat)]]
  /\ instances \in [DOMAIN instances ->
       [by : PipeThreads, state : {"created", "listening", "connected"}]]

\* A name is made of the process and of a number that the counter has reached.
NameInv ==
  \A t \in PipeThreads :
    /\ pipePc[t] # "out" => t[1] \in DOMAIN pipes
    /\ Named(t) => name[t] \in Nat \X Nat /\ name[t][1] = t[1] /\ name[t][2] <= pipes[t[1]]
    /\ ~Named(t) => name[t] = <<>>

\* Ends are of the pipe that the thread has the name of.
EndsInv ==
  \A t \in PipeThreads :
    /\ ends[t].read \in {<<>>, name[t]} /\ ends[t].write \in {<<>>, name[t]}
    /\ pipePc[t] \in {"out", "name", "create"} => ends[t] = Piping!Closed

\* The thread that made an instance has its read end.
MakerInv ==
  \A n \in DOMAIN instances : n # <<>> /\ ends[instances[n].by].read = n

\* While a call that overlaps with no other has still to read the counter, the number
\* is nobody else's; later its name is nobody else's.
AloneInv ==
  \A t, u \in PipeThreads :
    t # u /\ t[1] = u[1] /\ t \notin overlapped =>
      /\ pipePc[t] = "name" => /\ pipePc[u] # "name"
                               /\ Named(u) => name[u][2] < pipes[t[1]]
      /\ Named(t) => /\ pipePc[u] = "name" => name[t][2] < pipes[t[1]]
                     /\ Named(u) => name[u] # name[t]

\* How far a call that overlaps with no other has brought its pipe.
CallInv ==
  \A t \in PipeThreads :
    t \notin overlapped =>
      /\ pipePc[t] \in {"connect", "open", "done"} =>
           name[t] \in DOMAIN instances /\ ends[t].read = name[t] /\ instances[name[t]].by = t
      /\ pipePc[t] = "open" => instances[name[t]].state = "listening"
      /\ pipePc[t] = "done" =>
           ends[t].write = name[t] /\ instances[name[t]].state = "connected"

PipeInv == PipeShape /\ NameInv /\ EndsInv /\ MakerInv /\ AloneInv /\ CallInv

LEMMA PipeInitInv ==
  ASSUME Piping!Init
  PROVE  PipeInv
<1> USE LibraryAssumption DEF Piping!Init, Piping!NoName, Piping!Closed, Piping!Junk
<1>1. PipeShape
  BY DEF PipeShape
<1>2. NameInv /\ EndsInv /\ MakerInv /\ AloneInv /\ CallInv
  BY DEF NameInv, EndsInv, MakerInv, AloneInv, CallInv, Named
<1> QED
  BY <1>1, <1>2 DEF PipeInv

\* Two calls have names apart, unless the first overlapped with another one.
LEMMA NamesApart ==
  ASSUME PipeInv, NEW t \in PipeThreads, NEW u \in PipeThreads, u # t, u \notin overlapped,
         Named(t), Named(u)
  PROVE  name[u] # name[t]
<1>1. NameInv /\ AloneInv
  BY DEF PipeInv
<1>2. name[t][1] = t[1] /\ name[u][1] = u[1]
  BY <1>1 DEF NameInv
<1>3. u[1] = t[1] => name[u] # name[t]
  BY <1>1 DEF AloneInv
<1> QED
  BY <1>2, <1>3

\* A step of a call that has its name.
LEMMA NamedStep ==
  ASSUME PipeInv, NEW t \in PipeThreads, Named(t), NEW label,
         label \in {"create", "connect", "open", "done"},
         pipePc' = [pipePc EXCEPT ![t] = label], UNCHANGED <<pipes, name, overlapped>>
  PROVE  /\ pipePc' \in [PipeThreads -> {"out", "name", "create", "connect", "open", "done"}]
         /\ pipePc'[t] = label /\ \A u \in PipeThreads : u # t => pipePc'[u] = pipePc[u]
         /\ NameInv' /\ AloneInv'
<1>1. PipeShape /\ NameInv /\ AloneInv
  BY DEF PipeInv
<1>2. /\ pipePc' \in [PipeThreads -> {"out", "name", "create", "connect", "open", "done"}]
      /\ pipePc'[t] = label /\ \A u \in PipeThreads : u # t => pipePc'[u] = pipePc[u]
  BY <1>1 DEF PipeShape
<1>3. pipePc[t] \notin {"out", "name"} /\ label \notin {"out", "name"} /\ Named(t)'
  BY <1>2 DEF Named
<1>4. \A u \in PipeThreads : /\ Named(u)' <=> Named(u)
                             /\ pipePc'[u] = "name" <=> pipePc[u] = "name"
                             /\ pipePc'[u] = "out" <=> pipePc[u] = "out"
  <2> SUFFICES ASSUME NEW u \in PipeThreads
               PROVE  /\ Named(u)' <=> Named(u)
                      /\ pipePc'[u] = "name" <=> pipePc[u] = "name"
                      /\ pipePc'[u] = "out" <=> pipePc[u] = "out"
    OBVIOUS
  <2>1. CASE u = t
    BY <1>2, <1>3, <2>1
  <2>2. CASE u # t
    BY <1>2, <2>2 DEF Named
  <2> QED
    BY <2>1, <2>2
<1>5. NameInv'
  BY <1>1, <1>4 DEF NameInv
<1>6. AloneInv'
  BY <1>1, <1>4 DEF AloneInv
<1> QED
  BY <1>2, <1>5, <1>6

LEMMA PipeAddStep ==
  ASSUME PipeInv, NEW t \in PipeThreads, Piping!Add(t)
  PROVE  PipeInv'
<1> USE LibraryAssumption DEF PipeInv, Piping!Add
<1>1. PipeShape'
  BY DEF PipeShape, NameInv, Named, Piping!Closed, Piping!Junk, Piping!NoName, Piping!With
<1>p. /\ pipePc[t] = "out" /\ pipePc'[t] = "name" /\ UNCHANGED <<name, instances, ends>>
      /\ \A u \in PipeThreads : u # t => pipePc'[u] = pipePc[u]
  BY DEF PipeShape
<1>q. /\ t[1] \in DOMAIN pipes /\ DOMAIN pipes' = DOMAIN pipes
      /\ \A p \in DOMAIN pipes : pipes[p] \in Nat
      /\ pipes'[t[1]] = pipes[t[1]] + 1
      /\ \A p \in DOMAIN pipes : p # t[1] => pipes'[p] = pipes[p]
  BY DEF PipeShape
<1>s. /\ ~Named(t) /\ ~Named(t)'
      /\ \A u \in PipeThreads : u # t => (Named(u)' <=> Named(u))
  BY <1>p DEF Named
<1>l. \A u \in PipeThreads :
        Named(u) => u[1] \in DOMAIN pipes /\ name[u] \in Nat \X Nat /\ name[u][2] <= pipes[u[1]]
  BY DEF NameInv, Named
<1>m. \A u \in PipeThreads : Named(u) => name[u][2] <= pipes'[u[1]]
                                         /\ (u[1] = t[1] => name[u][2] < pipes'[t[1]])
  <2> SUFFICES ASSUME NEW u \in PipeThreads, Named(u)
               PROVE  name[u][2] <= pipes'[u[1]] /\ (u[1] = t[1] => name[u][2] < pipes'[t[1]])
    OBVIOUS
  <2>1. name[u][2] \in Nat /\ name[u][2] <= pipes[u[1]] /\ pipes[u[1]] \in Nat
    BY <1>l, <1>q
  <2>2. CASE u[1] = t[1]
    BY <1>q, <2>1, <2>2
  <2>3. CASE u[1] # t[1]
    BY <1>q, <1>l, <2>1, <2>3
  <2> QED
    BY <2>2, <2>3
<1>2. NameInv'
  <2> SUFFICES ASSUME NEW u \in PipeThreads
               PROVE  /\ pipePc'[u] # "out" => u[1] \in DOMAIN pipes'
                      /\ Named(u)' => /\ name[u] \in Nat \X Nat /\ name[u][1] = u[1]
                                      /\ name[u][2] <= pipes'[u[1]]
                      /\ ~Named(u)' => name[u] = <<>>
    BY <1>p DEF NameInv
  <2>1. CASE u = t
    BY <1>q, <1>s, <2>1 DEF NameInv
  <2>2. CASE u # t
    BY <1>p, <1>q, <1>s, <1>m, <2>2 DEF NameInv
  <2> QED
    BY <2>1, <2>2
<1>3. EndsInv'
  BY DEF PipeShape, NameInv, EndsInv, Named, Piping!Closed, Piping!Junk, Piping!NoName
<1>4. MakerInv'
  BY DEF PipeShape, NameInv, EndsInv, MakerInv, Named, Piping!Closed, Piping!Junk, Piping!NoName, Piping!With
<1>5. AloneInv'
  <2> SUFFICES ASSUME NEW u \in PipeThreads, NEW v \in PipeThreads, u # v, u[1] = v[1],
                      u \notin overlapped'
               PROVE  /\ pipePc'[u] = "name" => /\ pipePc'[v] # "name"
                                                /\ Named(v)' => name[v][2] < pipes'[u[1]]
                      /\ Named(u)' => /\ pipePc'[v] = "name" => name[u][2] < pipes'[u[1]]
                                      /\ Named(v)' => name[v] # name[u]
    BY <1>p DEF AloneInv
  <2> DEFINE others == {w \in PipeThreads : w[1] = t[1] /\ pipePc[w] = "name"}
  <2>1. overlapped' = IF others = {} THEN overlapped \ {t} ELSE overlapped \cup others \cup {t}
    OBVIOUS
  <2>2. CASE u = t
    <3>1. others = {}
      BY <2>1, <2>2
    <3>2. pipePc'[v] # "name"
      BY <1>p, <2>2, <3>1
    <3> QED
      BY <1>s, <1>m, <2>2, <3>2
  <2>3. CASE v = t
    <3>1. u \notin others
      BY <2>1
    <3>2. pipePc'[u] # "name"
      BY <1>p, <2>3, <3>1
    <3> QED
      BY <1>s, <1>m, <2>3, <3>2
  <2>4. CASE u # t /\ v # t
    <3>1. u \notin overlapped
      BY <2>1, <2>4
    <3>2. /\ pipePc[u] = "name" => /\ pipePc[v] # "name"
                                   /\ Named(v) => name[v][2] < pipes[u[1]]
          /\ Named(u) => /\ pipePc[v] = "name" => name[u][2] < pipes[u[1]]
                         /\ Named(v) => name[v] # name[u]
      BY <3>1 DEF AloneInv
    <3>3. pipePc'[u] = pipePc[u] /\ pipePc'[v] = pipePc[v]
          /\ (Named(u)' <=> Named(u)) /\ (Named(v)' <=> Named(v))
      BY <1>p, <1>s, <2>4
    <3>4. pipePc[u] = "name" => u[1] \in DOMAIN pipes
      BY DEF NameInv
    <3>5. CASE u[1] = t[1]
      BY <1>m, <3>2, <3>3, <3>5
    <3>6. CASE u[1] # t[1]
      <4>1. u[1] \in DOMAIN pipes => pipes'[u[1]] = pipes[u[1]]
        BY <1>q, <3>6
      <4>2. Named(u) => u[1] \in DOMAIN pipes
        BY <1>l
      <4> QED
        BY <3>2, <3>3, <3>4, <4>1, <4>2
    <3> QED
      BY <3>5, <3>6
  <2> QED
    BY <2>2, <2>3, <2>4
<1>6. CallInv'
  BY DEF PipeShape, NameInv, EndsInv, MakerInv, AloneInv, CallInv, Named, Piping!Closed, Piping!Junk, Piping!NoName, Piping!With
<1> QED
  BY <1>1, <1>2, <1>3, <1>4, <1>5, <1>6

LEMMA PipeNameStep ==
  ASSUME PipeInv, NEW t \in PipeThreads, Piping!Name(t)
  PROVE  PipeInv'
<1> USE LibraryAssumption DEF PipeInv, Piping!Name
<1>1. PipeShape'
  BY DEF PipeShape, NameInv, Named, Piping!Closed, Piping!Junk, Piping!NoName, Piping!With
<1>2. NameInv'
  BY DEF PipeShape, NameInv, Named, Piping!NoName
<1>3. EndsInv'
  BY DEF PipeShape, NameInv, EndsInv, Named, Piping!Closed, Piping!Junk, Piping!NoName
<1>4. MakerInv'
  BY DEF PipeShape, NameInv, EndsInv, MakerInv, Named, Piping!Closed, Piping!Junk, Piping!NoName, Piping!With
<1>5. AloneInv'
  <2>1. /\ pipePc[t] = "name" /\ pipePc'[t] = "create" /\ UNCHANGED <<pipes, overlapped>>
        /\ \A u \in PipeThreads : u # t => pipePc'[u] = pipePc[u] /\ name'[u] = name[u]
        /\ name'[t] = <<t[1], pipes[t[1]]>>
    BY DEF PipeShape
  <2>2. \A u \in PipeThreads : u # t => (Named(u)' <=> Named(u))
    BY <2>1 DEF Named
  <2> SUFFICES ASSUME NEW u \in PipeThreads, NEW v \in PipeThreads, u # v, u[1] = v[1],
                      u \notin overlapped
               PROVE  /\ pipePc'[u] = "name" => /\ pipePc'[v] # "name"
                                                /\ Named(v)' => name'[v][2] < pipes[u[1]]
                      /\ Named(u)' => /\ pipePc'[v] = "name" => name'[u][2] < pipes[u[1]]
                                      /\ Named(v)' => name'[v] # name'[u]
    BY <2>1 DEF AloneInv
  <2>3. /\ pipePc[u] = "name" => /\ pipePc[v] # "name"
                                 /\ Named(v) => name[v][2] < pipes[u[1]]
        /\ Named(u) => /\ pipePc[v] = "name" => name[u][2] < pipes[u[1]]
                       /\ Named(v) => name[v] # name[u]
    BY DEF AloneInv
  <2>l. \A w \in PipeThreads : Named(w) => name[w] \in Nat \X Nat
    BY DEF NameInv
  <2>4. CASE u = t
    <3>1. pipePc'[v] # "name" /\ pipePc'[u] # "name"
      BY <2>1, <2>3, <2>4
    <3>2. Named(v)' => name[v][2] < pipes[t[1]] /\ name[v][2] \in Nat /\ name'[v] = name[v]
      BY <2>1, <2>2, <2>3, <2>4, <2>l
    <3>3. Named(v)' => name'[v][2] # pipes[t[1]]
      BY <3>2
    <3>4. name'[u][2] = pipes[t[1]]
      BY <2>1, <2>4
    <3> QED
      BY <3>1, <3>3, <3>4
  <2>5. CASE v = t
    <3>1. pipePc'[u] # "name"
      BY <2>1, <2>3, <2>5
    <3>2. Named(u)' => name[u][2] < pipes[t[1]] /\ name[u][2] \in Nat /\ name'[u] = name[u]
      BY <2>1, <2>2, <2>3, <2>5, <2>l
    <3>3. Named(u)' => name'[u][2] # pipes[t[1]]
      BY <3>2
    <3>4. name'[v][2] = pipes[t[1]] /\ pipePc'[v] # "name"
      BY <2>1, <2>5
    <3> QED
      BY <3>1, <3>3, <3>4
  <2>6. CASE u # t /\ v # t
    BY <2>1, <2>2, <2>3, <2>6
  <2> QED
    BY <2>4, <2>5, <2>6
<1>6. CallInv'
  BY DEF PipeShape, NameInv, EndsInv, MakerInv, AloneInv, CallInv, Named, Piping!Closed, Piping!Junk, Piping!NoName, Piping!With
<1> QED
  BY <1>1, <1>2, <1>3, <1>4, <1>5, <1>6

\* An end that is set to a name.
LEMMA EndsTyped ==
  ASSUME NEW T, NEW E, NEW es \in [T -> [read : E, write : E]], NEW t \in T, NEW x \in E
  PROVE  /\ [es EXCEPT ![t].read = x] \in [T -> [read : E, write : E]]
         /\ [es EXCEPT ![t].write = x] \in [T -> [read : E, write : E]]
<1>1. PICK r \in E, w \in E : es[t] = [read |-> r, write |-> w]
  OBVIOUS
<1>2. /\ [es[t] EXCEPT !.read = x] = [read |-> x, write |-> w]
      /\ [es[t] EXCEPT !.write = x] = [read |-> r, write |-> x]
  BY <1>1
<1>3. [es[t] EXCEPT !.read = x] \in [read : E, write : E]
  BY <1>2
<1>4. [es[t] EXCEPT !.write = x] \in [read : E, write : E]
  BY <1>2
<1>5. [es EXCEPT ![t].read = x] \in [T -> [read : E, write : E]]
  BY <1>3
<1>6. [es EXCEPT ![t].write = x] \in [T -> [read : E, write : E]]
  BY <1>4
<1> QED
  BY <1>5, <1>6

\* An instance that changes its state.
LEMMA StateTyped ==
  ASSUME NEW N, NEW B, NEW S, NEW is \in [N -> [by : B, state : S]], NEW n \in N, NEW x \in S
  PROVE  [is EXCEPT ![n].state = x] \in [N -> [by : B, state : S]]
<1>1. PICK b \in B, st \in S : is[n] = [by |-> b, state |-> st]
  OBVIOUS
<1>2. [is[n] EXCEPT !.state = x] = [by |-> b, state |-> x]
  BY <1>1
<1>3. [is[n] EXCEPT !.state = x] \in [by : B, state : S]
  BY <1>2
<1> QED
  BY <1>3

LEMMA PipeCreateStep ==
  ASSUME PipeInv, NEW t \in PipeThreads, Piping!Create(t)
  PROVE  PipeInv'
<1> USE LibraryAssumption DEF PipeInv
<1>0. /\ pipePc[t] = "create" /\ pipePc' = [pipePc EXCEPT ![t] = "connect"]
      /\ UNCHANGED <<pipes, name, overlapped>>
      /\ ends[t].read = <<>> /\ ends[t].write = <<>>
  BY DEF Piping!Create, EndsInv, Piping!Closed, Piping!Junk
<1>n. name[t] \in Nat \X Nat /\ name[t] # <<>> /\ name[t][1] = t[1]
  BY <1>0 DEF NameInv, Named
<1>2. NameInv'
  BY <1>0, NamedStep DEF Named
<1>5. AloneInv'
  BY <1>0, NamedStep DEF Named
<1>a. CASE name[t] \in DOMAIN instances
  <2>0. UNCHANGED <<instances, ends>>
    BY <1>a DEF Piping!Create
  <2>1. PipeShape' /\ EndsInv' /\ MakerInv'
    BY <1>0, <2>0 DEF PipeShape, EndsInv, MakerInv
  <2> DEFINE u == instances[name[t]].by
  <2>2. u \in PipeThreads /\ ends[u].read = name[t]
    BY <1>a DEF PipeShape, MakerInv
  <2>3. u # t /\ name[u] = name[t] /\ Named(u)
    BY <1>0, <1>n, <2>2 DEF EndsInv, NameInv
  <2>4. u[1] = t[1]
    BY <1>n, <2>2, <2>3 DEF NameInv
  <2>5. t \in overlapped
    BY <1>0, <2>2, <2>3, <2>4 DEF AloneInv, Named
  <2>6. CallInv'
    BY <1>0, <2>0, <2>5 DEF PipeShape, CallInv
  <2> QED
    BY <1>2, <1>5, <2>1, <2>6
<1>b. CASE name[t] \notin DOMAIN instances
  <2> DEFINE made == [by |-> t, state |-> "created"]
  <2>0. /\ instances' = [n \in DOMAIN instances \cup {name[t]} |->
                           IF n = name[t] THEN made ELSE instances[n]]
        /\ ends' = [ends EXCEPT ![t].read = name[t]]
    BY <1>b DEF Piping!Create, Piping!With
  <2>1. /\ DOMAIN instances' = DOMAIN instances \cup {name[t]}
        /\ instances'[name[t]] = made
        /\ \A n \in DOMAIN instances : n # name[t] /\ instances'[n] = instances[n]
    BY <1>b, <2>0
  <2>2. /\ ends'[t].read = name[t] /\ ends'[t].write = <<>>
        /\ \A u \in PipeThreads : u # t => ends'[u] = ends[u]
    BY <1>0, <2>0 DEF PipeShape
  <2>3. made \in [by : PipeThreads, state : {"created", "listening", "connected"}]
    OBVIOUS
  <2>4. instances' \in [DOMAIN instances' ->
          [by : PipeThreads, state : {"created", "listening", "connected"}]]
    BY <2>0, <2>1, <2>3, SMTT(30) DEF PipeShape
  <2>5. PipeShape'
    <3>1. ends' \in [PipeThreads -> [read : {<<>>} \cup (Nat \X Nat), write : {<<>>} \cup (Nat \X Nat)]]
      BY <2>0, <1>n, EndsTyped DEF PipeShape
    <3> QED
      BY <1>0, <2>4, <3>1 DEF PipeShape
  <2>6. EndsInv'
    BY <1>0, <2>2 DEF PipeShape, EndsInv
  <2>7. MakerInv'
    <3> SUFFICES ASSUME NEW n \in DOMAIN instances'
                 PROVE  n # <<>> /\ ends'[instances'[n].by].read = n
      BY DEF MakerInv
    <3>1. CASE n = name[t]
      BY <3>1, <1>n, <2>1, <2>2
    <3>2. CASE n \in DOMAIN instances
      <4>1. instances[n].by \in PipeThreads /\ ends[instances[n].by].read = n /\ n # <<>>
        BY <3>2 DEF PipeShape, MakerInv
      <4>2. instances[n].by # t
        BY <1>0, <4>1
      <4> QED
        BY <3>2, <2>1, <2>2, <4>1, <4>2
    <3> QED
      BY <3>1, <3>2, <2>1
  <2>8. CallInv'
    <3> SUFFICES ASSUME NEW u \in PipeThreads, u \notin overlapped'
                 PROVE  /\ pipePc'[u] \in {"connect", "open", "done"} =>
                             /\ name'[u] \in DOMAIN instances' /\ ends'[u].read = name'[u]
                             /\ instances'[name'[u]].by = u
                        /\ pipePc'[u] = "open" => instances'[name'[u]].state = "listening"
                        /\ pipePc'[u] = "done" =>
                             /\ ends'[u].write = name'[u]
                             /\ instances'[name'[u]].state = "connected"
      BY DEF CallInv
    <3>1. CASE u = t
      BY <3>1, <1>0, <2>1, <2>2 DEF PipeShape
    <3>2. CASE u # t
      BY <3>2, <1>0, <2>1, <2>2 DEF PipeShape, CallInv
    <3> QED
      BY <3>1, <3>2
  <2> QED
    BY <1>2, <1>5, <2>5, <2>6, <2>7, <2>8
<1> QED
  BY <1>a, <1>b

LEMMA PipeConnectStep ==
  ASSUME PipeInv, NEW t \in PipeThreads, Piping!Connect(t)
  PROVE  PipeInv'
<1> USE LibraryAssumption DEF PipeInv
<1>0. /\ pipePc[t] = "connect" /\ pipePc' = [pipePc EXCEPT ![t] = "open"] /\ Named(t)
      /\ UNCHANGED <<pipes, name, ends, overlapped>>
  BY DEF Piping!Connect, Named
<1>2. /\ pipePc' \in [PipeThreads -> {"out", "name", "create", "connect", "open", "done"}]
      /\ pipePc'[t] = "open" /\ \A u \in PipeThreads : u # t => pipePc'[u] = pipePc[u]
      /\ NameInv' /\ AloneInv'
  BY <1>0, NamedStep
<1>3. /\ DOMAIN instances' = DOMAIN instances
      /\ \A n \in DOMAIN instances :
           /\ instances'[n].by = instances[n].by
           /\ instances'[n] \in [by : PipeThreads, state : {"created", "listening", "connected"}]
           /\ n # name[t] => instances'[n] = instances[n]
           /\ n = name[t] /\ ends[t].read = n => instances'[n].state = "listening"
  <2>1. CASE ends[t].read = <<>>
    <3>1. instances' = instances
      BY <2>1 DEF Piping!Connect, Piping!Junk
    <3>2. \A n \in DOMAIN instances : n # <<>>
      BY DEF MakerInv
    <3> QED
      BY <2>1, <3>1, <3>2 DEF PipeShape
  <2>2. CASE ends[t].read # <<>>
    <3>1. instances' = [instances EXCEPT ![name[t]].state = "listening"]
      BY <2>2 DEF Piping!Connect, Piping!Junk
    <3>2. DOMAIN instances' = DOMAIN instances
      BY <3>1
    <3>3. ASSUME NEW n \in DOMAIN instances, n = name[t]
          PROVE  instances'[n] = [by |-> instances[n].by, state |-> "listening"]
      <4>1. PICK b \in PipeThreads, st \in {"created", "listening", "connected"} :
              instances[n] = [by |-> b, state |-> st]
        BY DEF PipeShape
      <4>2. instances'[n] = [instances[n] EXCEPT !.state = "listening"]
        BY <3>1, <3>3
      <4> QED
        BY <4>1, <4>2
    <3>4. \A n \in DOMAIN instances : n # name[t] => instances'[n] = instances[n]
      BY <3>1
    <3>5. \A n \in DOMAIN instances : instances[n].by \in PipeThreads
            /\ instances[n] \in [by : PipeThreads, state : {"created", "listening", "connected"}]
      BY DEF PipeShape
    <3> QED
      BY <3>2, <3>3, <3>4, <3>5
  <2> QED
    BY <2>1, <2>2
<1>4. instances' \in [DOMAIN instances' ->
        [by : PipeThreads, state : {"created", "listening", "connected"}]]
  <2>1. instances' = [n \in DOMAIN instances' |-> instances'[n]]
    <3>1. instances = [n \in DOMAIN instances |-> instances[n]]
      BY DEF PipeShape
    <3> QED
      BY <3>1 DEF Piping!Connect
  <2> QED
    BY <1>3, <2>1
<1>1. PipeShape'
  BY <1>0, <1>2, <1>4 DEF PipeShape
<1>5. EndsInv'
  BY <1>0, <1>2 DEF EndsInv
<1>6. MakerInv'
  BY <1>0, <1>3 DEF MakerInv
<1>7. CallInv'
  <2> SUFFICES ASSUME NEW u \in PipeThreads, u \notin overlapped
               PROVE  /\ pipePc'[u] \in {"connect", "open", "done"} =>
                           /\ name[u] \in DOMAIN instances /\ ends[u].read = name[u]
                           /\ instances'[name[u]].by = u
                      /\ pipePc'[u] = "open" => instances'[name[u]].state = "listening"
                      /\ pipePc'[u] = "done" =>
                           /\ ends[u].write = name[u]
                           /\ instances'[name[u]].state = "connected"
    BY <1>0, <1>3 DEF CallInv
  <2>1. /\ pipePc[u] \in {"connect", "open", "done"} =>
             name[u] \in DOMAIN instances /\ ends[u].read = name[u] /\ instances[name[u]].by = u
        /\ pipePc[u] = "open" => instances[name[u]].state = "listening"
        /\ pipePc[u] = "done" =>
             ends[u].write = name[u] /\ instances[name[u]].state = "connected"
    BY DEF CallInv
  <2>2. CASE u = t
    BY <1>0, <1>2, <1>3, <2>1, <2>2
  <2>3. CASE u # t
    <3>1. pipePc[u] \in {"connect", "open", "done"} => name[u] # name[t]
      BY <1>0, <2>3, NamesApart DEF Named
    <3>2. pipePc'[u] = pipePc[u]
      BY <1>2, <2>3
    <3> QED
      BY <1>3, <2>1, <3>1, <3>2
  <2> QED
    BY <2>2, <2>3
<1> QED
  BY <1>1, <1>2, <1>5, <1>6, <1>7

LEMMA PipeOpenStep ==
  ASSUME PipeInv, NEW t \in PipeThreads, Piping!Open(t)
  PROVE  PipeInv'
<1> USE LibraryAssumption DEF PipeInv
<1>0. /\ pipePc[t] = "open" /\ pipePc' = [pipePc EXCEPT ![t] = "done"]
      /\ UNCHANGED <<pipes, name, overlapped>>
  BY DEF Piping!Open
<1>n. name[t] \in Nat \X Nat
  BY <1>0 DEF NameInv, Named
<1>2. NameInv' /\ AloneInv'
  BY <1>0, NamedStep DEF Named
<1>a. CASE name[t] \in DOMAIN instances /\ instances[name[t]].state = "listening"
  <2>0. /\ instances' = [instances EXCEPT ![name[t]].state = "connected"]
        /\ ends' = [ends EXCEPT ![t].write = name[t]]
    BY <1>a DEF Piping!Open
  <2>1. /\ DOMAIN instances' = DOMAIN instances
        /\ \A n \in DOMAIN instances :
             /\ instances'[n].by = instances[n].by
             /\ n # name[t] => instances'[n] = instances[n]
        /\ instances'[name[t]].state = "connected"
    BY <1>a, <2>0 DEF PipeShape
  <2>2. /\ ends'[t].read = ends[t].read /\ ends'[t].write = name[t]
        /\ \A u \in PipeThreads : u # t => ends'[u] = ends[u]
    BY <2>0 DEF PipeShape
  <2>3. instances' \in [DOMAIN instances' ->
          [by : PipeThreads, state : {"created", "listening", "connected"}]]
    <3> DEFINE S == {"created", "listening", "connected"}
    <3>1. instances \in [DOMAIN instances -> [by : PipeThreads, state : S]]
          /\ name[t] \in DOMAIN instances /\ "connected" \in S
      BY <1>a DEF PipeShape
    <3> HIDE DEF S
    <3>2. instances' \in [DOMAIN instances -> [by : PipeThreads, state : S]]
      BY <2>0, <3>1, StateTyped
    <3> QED
      BY <2>1, <3>2 DEF S
  <2>4. ends' \in [PipeThreads -> [read : {<<>>} \cup (Nat \X Nat), write : {<<>>} \cup (Nat \X Nat)]]
    BY <2>0, <1>n, EndsTyped DEF PipeShape
  <2>5. PipeShape'
    BY <1>0, <2>3, <2>4 DEF PipeShape
  <2>6. EndsInv'
    BY <1>0, <2>2 DEF PipeShape, EndsInv
  <2>7. MakerInv'
    <3> SUFFICES ASSUME NEW n \in DOMAIN instances
                 PROVE  n # <<>> /\ ends'[instances'[n].by].read = n
      BY <2>1 DEF MakerInv
    <3>1. instances[n].by \in PipeThreads /\ ends[instances[n].by].read = n /\ n # <<>>
      BY DEF PipeShape, MakerInv
    <3>2. \A u \in PipeThreads : ends'[u].read = ends[u].read
      BY <2>2
    <3> QED
      BY <2>1, <3>1, <3>2
  <2>8. CallInv'
    <3> SUFFICES ASSUME NEW u \in PipeThreads, u \notin overlapped'
                 PROVE  /\ pipePc'[u] \in {"connect", "open", "done"} =>
                             /\ name'[u] \in DOMAIN instances' /\ ends'[u].read = name'[u]
                             /\ instances'[name'[u]].by = u
                        /\ pipePc'[u] = "open" => instances'[name'[u]].state = "listening"
                        /\ pipePc'[u] = "done" =>
                             /\ ends'[u].write = name'[u]
                             /\ instances'[name'[u]].state = "connected"
      BY DEF CallInv
    <3>1. CASE u = t
      BY <3>1, <1>0, <1>a, <2>1, <2>2 DEF PipeShape, CallInv
    <3>2. CASE u # t
      <4>1. pipePc'[u] = pipePc[u]
        BY <3>2, <1>0 DEF PipeShape
      <4>2. pipePc[u] \in {"connect", "open", "done"} => name[u] # name[t]
        BY <1>0, <3>2, NamesApart DEF Named
      <4> QED
        BY <3>2, <4>1, <4>2, <1>0, <2>1, <2>2 DEF CallInv
    <3> QED
      BY <3>1, <3>2
  <2> QED
    BY <1>2, <2>5, <2>6, <2>7, <2>8
<1>b. CASE ~(name[t] \in DOMAIN instances /\ instances[name[t]].state = "listening")
  <2>0. UNCHANGED <<instances, ends>>
    BY <1>b DEF Piping!Open
  <2>1. PipeShape' /\ EndsInv' /\ MakerInv'
    BY <1>0, <2>0 DEF PipeShape, EndsInv, MakerInv
  <2>2. CallInv'
    BY <1>0, <1>b, <2>0 DEF PipeShape, CallInv
  <2> QED
    BY <1>2, <2>1, <2>2
<1> QED
  BY <1>a, <1>b

LEMMA PipeCloseBothStep ==
  ASSUME PipeInv, NEW t \in PipeThreads, Piping!CloseBoth(t)
  PROVE  PipeInv'
<1> USE LibraryAssumption DEF PipeInv, Piping!CloseBoth
<1>1. PipeShape'
  BY DEF PipeShape, NameInv, Named, Piping!Closed, Piping!Junk, Piping!NoName, Piping!With
<1>2. NameInv'
  BY DEF PipeShape, NameInv, Named, Piping!NoName
<1>3. EndsInv'
  BY DEF PipeShape, NameInv, EndsInv, Named, Piping!Closed, Piping!Junk, Piping!NoName
<1>4. MakerInv'
  BY DEF PipeShape, NameInv, EndsInv, MakerInv, Named, Piping!Closed, Piping!Junk, Piping!NoName, Piping!With
<1>5. AloneInv'
  BY DEF PipeShape, NameInv, AloneInv, Named
<1>6. CallInv'
  <2> SUFFICES ASSUME NEW u \in PipeThreads, u \notin overlapped'
               PROVE  /\ pipePc'[u] \in {"connect", "open", "done"} =>
                           /\ name'[u] \in DOMAIN instances' /\ ends'[u].read = name'[u]
                           /\ instances'[name'[u]].by = u
                      /\ pipePc'[u] = "open" => instances'[name'[u]].state = "listening"
                      /\ pipePc'[u] = "done" =>
                           /\ ends'[u].write = name'[u]
                           /\ instances'[name'[u]].state = "connected"
    BY DEF CallInv
  <2>1. /\ pipePc[t] = "done" /\ pipePc'[t] = "out" /\ overlapped' = overlapped
        /\ \A v \in PipeThreads :
             v # t => pipePc'[v] = pipePc[v] /\ name'[v] = name[v] /\ ends'[v] = ends[v]
        /\ \A n \in DOMAIN instances : n # ends[t].read => n \in DOMAIN instances' /\ instances'[n] = instances[n]
    BY DEF PipeShape
  <2>2. CASE u = t
    BY <2>1, <2>2
  <2>3. CASE u # t
    <3>1. /\ pipePc[u] \in {"connect", "open", "done"} =>
               name[u] \in DOMAIN instances /\ ends[u].read = name[u] /\ instances[name[u]].by = u
          /\ pipePc[u] = "open" => instances[name[u]].state = "listening"
          /\ pipePc[u] = "done" =>
               ends[u].write = name[u] /\ instances[name[u]].state = "connected"
      BY <2>1 DEF CallInv
    <3>2. pipePc[u] \in {"connect", "open", "done"} => name[u] # name[t]
      BY <2>1, <2>3, NamesApart DEF Named
    <3>3. pipePc[u] \in {"connect", "open", "done"} => name[u] # ends[t].read
      <4>1. ends[t].read \in {<<>>, name[t]}
        BY DEF EndsInv
      <4>2. \A n \in DOMAIN instances : n # <<>>
        BY DEF MakerInv
      <4> QED
        BY <3>1, <3>2, <4>1, <4>2
    <3> QED
      BY <2>1, <2>3, <3>1, <3>3
  <2> QED
    BY <2>2, <2>3
<1> QED
  BY <1>1, <1>2, <1>3, <1>4, <1>5, <1>6

LEMMA PipeForkStep ==
  ASSUME PipeInv, NEW p, NEW q, Piping!Fork(p, q)
  PROVE  PipeInv'
<1> USE LibraryAssumption DEF PipeInv, Piping!Fork, Piping!With
<1>1. PipeShape'
  BY DEF PipeShape
<1>2. NameInv'
  BY DEF PipeShape, NameInv, Named
<1>3. EndsInv' /\ MakerInv'
  BY DEF PipeShape, EndsInv, MakerInv
<1>5. AloneInv'
  BY DEF PipeShape, NameInv, AloneInv, Named
<1>6. CallInv'
  BY DEF PipeShape, CallInv
<1> QED
  BY <1>1, <1>2, <1>3, <1>5, <1>6

LEMMA PipeStep ==
  ASSUME PipeInv, [Piping!Next]_pipeVars
  PROVE  PipeInv'
<1>1. CASE UNCHANGED pipeVars
  BY <1>1 DEF pipeVars, PipeInv, PipeShape, NameInv, EndsInv, MakerInv, AloneInv, CallInv, Named,
              Piping!Closed, Piping!Junk
<1>2. CASE Piping!Next
  BY <1>2, PipeAddStep, PipeNameStep, PipeCreateStep, PipeConnectStep, PipeOpenStep,
     PipeCloseBothStep, PipeForkStep DEF Piping!Next
<1> QED
  BY <1>1, <1>2

LEMMA PipeInvPaired ==
  ASSUME PipeInv
  PROVE  PipesPaired
<1> SUFFICES ASSUME NEW t \in PipeThreads, pipePc[t] = "done", t \notin overlapped
             PROVE  /\ ends[t] = [read |-> name[t], write |-> name[t]]
                    /\ instances[name[t]] = [by |-> t, state |-> "connected"]
                    /\ \A u \in PipeThreads \ {t} : name[t] \notin {ends[u].read, ends[u].write}
  BY DEF PipesPaired, Piping!PipesPaired
<1> USE DEF PipeInv
<1>1. ends[t] \in [read : {<<>>} \cup (Nat \X Nat), write : {<<>>} \cup (Nat \X Nat)]
  BY DEF PipeShape
<1>2. ends[t].read = name[t] /\ ends[t].write = name[t]
  BY DEF CallInv
<1>3. name[t] \in DOMAIN instances
  BY DEF CallInv
<1>4. instances[name[t]] \in [by : PipeThreads, state : {"created", "listening", "connected"}]
  BY <1>3 DEF PipeShape
<1>5. instances[name[t]].by = t /\ instances[name[t]].state = "connected"
  BY DEF CallInv
<1>6. ASSUME NEW u \in PipeThreads \ {t}
      PROVE  name[t] \notin {ends[u].read, ends[u].write}
  <2>1. name[t] # <<>> /\ name[t][1] = t[1] /\ Named(t)
    BY DEF NameInv, Named
  <2>2. CASE ~Named(u)
    BY <2>1, <2>2 DEF NameInv, EndsInv
  <2>3. CASE Named(u)
    <3>1. name[u] # name[t]
      <4>1. CASE u[1] # t[1]
        BY <2>1, <2>3, <4>1 DEF NameInv
      <4>2. CASE u[1] = t[1]
        BY <2>1, <2>3, <4>2 DEF AloneInv
      <4> QED
        BY <4>1, <4>2
    <3> QED
      BY <2>1, <3>1 DEF EndsInv
  <2> QED
    BY <2>2, <2>3
<1> QED
  BY <1>1, <1>2, <1>4, <1>5, <1>6

LEMMA LibPipeInv == LibSpec => []PipeInv
<1>1. LibInit => PipeInv
  BY PipeInitInv DEF LibInit
<1>2. PipeInv /\ [LibNext]_libVars => PipeInv'
  <2> SUFFICES ASSUME PipeInv, [LibNext]_libVars
               PROVE  PipeInv'
    OBVIOUS
  <2>1. [Piping!Next]_pipeVars
    BY DEF LibNext, libVars
  <2> QED
    BY <2>1, PipeStep
<1> QED
  BY <1>1, <1>2, PTL DEF LibSpec

\* A pipe() call that overlaps with no other of its process returns the two ends of one
\* pipe, which no other such call has.
THEOREM LibPipesPaired == LibSpec => []PipesPaired
BY LibPipeInv, PipeInvPaired, PTL

-----------------------------------------------------------------------------
(***************************************************************************)
(* aliasAtAddress().                                                       *)
(***************************************************************************)
AliasShape ==
  /\ own \subseteq Nat \X Nat /\ tmps \in Seq(Nat) /\ rcRet \in BOOLEAN
  /\ pvReq \in Nat /\ cbReq \in Nat /\ Len(tmps) <= MaxTmps
  /\ cbTmp \in Nat /\ cbTmp <= Chunk
  /\ aliasPc \in {"loop", "alias", "cleanup", "done"}
  /\ aliasPc = "alias" => Len(tmps) < MaxTmps
  /\ Aliasing!Objects(own) \cap taken = {}

\* The object is in apvTmps.
InTmps(o) == \E i \in DOMAIN tmps : o[1] = tmps[i]

\* Until the search ends, all objects are in apvTmps, below the address; then there is
\* the alias at the address besides, or one object past it.
SearchInv ==
  /\ \A i \in DOMAIN tmps : tmps[i] < pvReq
  /\ aliasPc \in {"loop", "alias"} => rcRet = FALSE /\ \A o \in own : InTmps(o)
  /\ aliasPc = "cleanup" /\ rcRet = TRUE =>
       <<pvReq, cbReq>> \in own /\ \A o \in own : InTmps(o) \/ o = <<pvReq, cbReq>>
  /\ aliasPc = "cleanup" /\ rcRet = FALSE =>
       \A o, p \in own : /\ InTmps(o) \/ o[1] > pvReq
                         /\ InTmps(o) \/ InTmps(p) \/ o = p

AliasInv == AliasShape /\ SearchInv /\ AliasPlaced

LEMMA AliasInitInv ==
  ASSUME Aliasing!Init
  PROVE  AliasInv
<1> USE LibraryAssumption DEF Aliasing!Init
<1>1. own = {} /\ tmps = <<>> /\ pvReq \in Nat /\ cbReq \in Nat
  BY DEF Aliasing!Places
<1>3. Aliasing!Objects(own) \cap taken = {}
  BY <1>1 DEF Aliasing!Objects
<1>5. own \subseteq Nat \X Nat /\ tmps \in Seq(Nat) /\ Len(tmps) <= MaxTmps
  BY <1>1
<1>6. rcRet = FALSE /\ aliasPc = "loop" /\ cbTmp \in Nat /\ cbTmp <= Chunk
  OBVIOUS
<1>4. AliasShape
  BY <1>1, <1>3, <1>5, <1>6 DEF AliasShape
<1>2. SearchInv /\ AliasPlaced
  BY DEF SearchInv, AliasPlaced, Aliasing!AliasPlaced
<1> QED
  BY <1>2, <1>4 DEF AliasInv

\* What is put at a free place does not touch what was in use.
LEMMA PlacesFree ==
  ASSUME AliasShape, NEW n \in Nat, NEW at \in Aliasing!Places(n)
  PROVE  /\ at \in Nat /\ n > 0 /\ <<at, n>> \in Nat \X Nat
         /\ Aliasing!Objects(own \cup {<<at, n>>}) \cap taken = {}
<1>1. at \in Nat /\ n > 0 /\ Aliasing!Span(at, n) \cap taken = {}
  BY LibraryAssumption DEF Aliasing!Places
<1>2. ASSUME NEW x \in Aliasing!Objects(own \cup {<<at, n>>})
      PROVE  x \in Aliasing!Objects(own) \/ x \in Aliasing!Span(at, n)
  BY DEF Aliasing!Objects
<1> QED
  BY <1>1, <1>2 DEF AliasShape

LEMMA AppendTmp ==
  ASSUME tmps \in Seq(Nat), NEW at \in Nat, at < pvReq, pvReq' = pvReq,
         \A i \in DOMAIN tmps : tmps[i] < pvReq, tmps' = Append(tmps, at), Len(tmps) < MaxTmps
  PROVE  /\ tmps' \in Seq(Nat) /\ Len(tmps') <= MaxTmps
         /\ \A i \in DOMAIN tmps' : tmps'[i] < pvReq'
         /\ \A o : InTmps(o) => InTmps(o)'
         /\ \A o : o[1] = at => InTmps(o)'
<1>1. /\ tmps' \in Seq(Nat) /\ Len(tmps') = Len(tmps) + 1
      /\ \A i \in 1..Len(tmps) : tmps'[i] = tmps[i]
      /\ tmps'[Len(tmps) + 1] = at
      /\ DOMAIN tmps = 1..Len(tmps) /\ DOMAIN tmps' = 1..(Len(tmps) + 1)
  OBVIOUS
<1> QED
  BY <1>1, LibraryAssumption DEF InTmps

LEMMA AliasSearchStep ==
  ASSUME AliasInv, Aliasing!AllocFails \/ Aliasing!AllocPast \/ Aliasing!AllocTouches
                     \/ Aliasing!AliasFails
  PROVE  AliasInv'
<1> USE DEF AliasInv
<1>0. aliasPc \in {"loop", "alias"} /\ UNCHANGED <<taken, pvReq, cbReq, tmps, rcRet>>
  BY DEF Aliasing!AllocFails, Aliasing!AllocPast, Aliasing!AllocTouches, Aliasing!AliasFails
<1>1. CASE Aliasing!AllocFails \/ Aliasing!AliasFails
  <2>1. AliasShape'
    BY <1>1, <1>0 DEF AliasShape, Aliasing!AllocFails, Aliasing!AliasFails, Aliasing!Objects, Aliasing!Span
  <2>2. SearchInv' /\ AliasPlaced'
    BY <1>1, <1>0 DEF SearchInv, InTmps, AliasPlaced, Aliasing!AliasPlaced,
                      Aliasing!AllocFails, Aliasing!AliasFails
  <2> QED
    BY <2>1, <2>2
<1>2. CASE Aliasing!AllocPast
  <2>1. PICK at \in Aliasing!Places(cbTmp) :
          /\ at > pvReq
          /\ IF cbTmp <= cbReq
               THEN own' = own \cup {<<at, cbTmp>>} /\ aliasPc' = "cleanup" /\ UNCHANGED cbTmp
               ELSE cbTmp' = cbReq /\ UNCHANGED <<own, aliasPc>>
    BY <1>2 DEF Aliasing!AllocPast
  <2>2. aliasPc = "loop"
    BY <1>2 DEF Aliasing!AllocPast
  <2>3. at \in Nat /\ <<at, cbTmp>> \in Nat \X Nat
        /\ Aliasing!Objects(own \cup {<<at, cbTmp>>}) \cap taken = {}
    BY PlacesFree DEF AliasShape
  <2>4. CASE cbTmp <= cbReq
    <3>0. own' = own \cup {<<at, cbTmp>>} /\ aliasPc' = "cleanup" /\ cbTmp' = cbTmp
      BY <2>1, <2>4
    <3>3. Aliasing!Objects(own') \cap taken' = {}
      BY <1>0, <2>3, <3>0
    <3>4. own' \subseteq Nat \X Nat
      BY <2>3, <3>0 DEF AliasShape
    <3>1. AliasShape'
      BY <1>0, <3>0, <3>3, <3>4 DEF AliasShape
    <3>2. SearchInv' /\ AliasPlaced'
      BY <1>0, <2>1, <2>2, <2>4 DEF SearchInv, InTmps, AliasPlaced, Aliasing!AliasPlaced
    <3> QED
      BY <3>1, <3>2
  <2>5. CASE ~(cbTmp <= cbReq)
    <3>0. own' = own /\ aliasPc' = "loop" /\ cbTmp' = cbReq /\ cbReq \in Nat /\ cbReq <= Chunk
      BY <2>1, <2>2, <2>5, LibraryAssumption DEF AliasShape
    <3>1. AliasShape'
      BY <1>0, <2>2, <3>0 DEF AliasShape
    <3>2. SearchInv' /\ AliasPlaced'
      BY <1>0, <2>1, <2>2, <2>5 DEF SearchInv, InTmps, AliasPlaced, Aliasing!AliasPlaced
    <3> QED
      BY <3>1, <3>2
  <2> QED
    BY <2>4, <2>5
<1>3. CASE Aliasing!AllocTouches
  <2>1. PICK at \in Aliasing!Places(cbTmp) :
          /\ at <= pvReq /\ at + cbTmp > pvReq
          /\ cbTmp' = pvReq - at
          /\ aliasPc' = IF at = pvReq THEN "alias" ELSE "loop"
    BY <1>3 DEF Aliasing!AllocTouches
  <2>2. aliasPc = "loop" /\ own' = own
    BY <1>3 DEF Aliasing!AllocTouches
  <2>3. at \in Nat
    BY PlacesFree DEF AliasShape
  <2>0. Len(tmps) < MaxTmps
    BY <1>3 DEF Aliasing!AllocTouches
  <2>4. cbTmp' \in Nat /\ cbTmp' <= Chunk /\ aliasPc' \in {"loop", "alias"}
    BY <2>1, <2>3, LibraryAssumption DEF AliasShape
  <2>5. AliasShape'
    BY <1>0, <2>0, <2>2, <2>4 DEF AliasShape, Aliasing!Objects, Aliasing!Span
  <2>6. SearchInv' /\ AliasPlaced'
    BY <1>0, <2>2, <2>4 DEF SearchInv, InTmps, AliasPlaced, Aliasing!AliasPlaced
  <2> QED
    BY <2>5, <2>6
<1> QED
  BY <1>1, <1>2, <1>3

LEMMA AliasBelowStep ==
  ASSUME AliasInv, Aliasing!AllocBelow
  PROVE  AliasInv'
<1> USE DEF AliasInv
<1>1. PICK at \in Aliasing!Places(cbTmp) :
        at + cbTmp <= pvReq /\ own' = own \cup {<<at, cbTmp>>} /\ tmps' = Append(tmps, at)
  BY DEF Aliasing!AllocBelow
<1>2. aliasPc = "loop" /\ Len(tmps) < MaxTmps /\ UNCHANGED <<taken, pvReq, cbReq, cbTmp, aliasPc, rcRet>>
  BY DEF Aliasing!AllocBelow
<1>3. /\ at \in Nat /\ cbTmp > 0 /\ <<at, cbTmp>> \in Nat \X Nat
      /\ Aliasing!Objects(own \cup {<<at, cbTmp>>}) \cap taken = {}
  BY PlacesFree DEF AliasShape
<1>4. at < pvReq
  BY <1>1, <1>3 DEF AliasShape
<1>5. /\ tmps' \in Seq(Nat) /\ Len(tmps') <= MaxTmps
      /\ \A i \in DOMAIN tmps' : tmps'[i] < pvReq'
      /\ \A o : InTmps(o) => InTmps(o)'
      /\ \A o : o[1] = at => InTmps(o)'
  BY <1>1, <1>2, <1>3, <1>4, AppendTmp DEF AliasShape, SearchInv
<1>6. AliasShape'
  BY <1>1, <1>2, <1>3, <1>5 DEF AliasShape, Aliasing!Objects, Aliasing!Span
<1>7. SearchInv' /\ AliasPlaced'
  BY <1>1, <1>2, <1>5 DEF SearchInv, AliasPlaced, Aliasing!AliasPlaced
<1> QED
  BY <1>6, <1>7

LEMMA AliasAliasStep ==
  ASSUME AliasInv, Aliasing!Alias
  PROVE  AliasInv'
<1> USE DEF AliasInv
<1>1. PICK at \in Aliasing!Places(cbReq) :
        /\ own' = own \cup {<<at, cbReq>>}
        /\ rcRet' = (at = pvReq)
        /\ IF at < pvReq
             THEN aliasPc' = "loop" /\ tmps' = Append(tmps, at)
             ELSE aliasPc' = "cleanup" /\ UNCHANGED tmps
  BY DEF Aliasing!Alias
<1>2. aliasPc = "alias" /\ UNCHANGED <<taken, pvReq, cbReq, cbTmp>>
  BY DEF Aliasing!Alias
<1>3. /\ at \in Nat /\ <<at, cbReq>> \in Nat \X Nat
      /\ Aliasing!Objects(own \cup {<<at, cbReq>>}) \cap taken = {}
  BY PlacesFree DEF AliasShape
<1>4. CASE at < pvReq
  <2>1. /\ tmps' \in Seq(Nat) /\ Len(tmps') <= MaxTmps
        /\ \A i \in DOMAIN tmps' : tmps'[i] < pvReq'
        /\ \A o : InTmps(o) => InTmps(o)'
        /\ \A o : o[1] = at => InTmps(o)'
    BY <1>1, <1>2, <1>3, <1>4, AppendTmp DEF AliasShape, SearchInv
  <2>5. at # pvReq
    BY <1>3, <1>4 DEF AliasShape
  <2>2. rcRet' = FALSE /\ aliasPc' = "loop"
    BY <1>1, <1>4, <2>5
  <2>3. AliasShape'
    BY <1>1, <1>2, <1>3, <2>1, <2>2 DEF AliasShape
  <2>4. SearchInv' /\ AliasPlaced'
    BY <1>1, <1>2, <2>1, <2>2 DEF SearchInv, AliasPlaced, Aliasing!AliasPlaced
  <2> QED
    BY <2>3, <2>4
<1>5. CASE ~(at < pvReq)
  <2>1. AliasShape'
    BY <1>1, <1>2, <1>3, <1>5 DEF AliasShape, Aliasing!Objects, Aliasing!Span
  <2>2. AliasPlaced' /\ \A i \in DOMAIN tmps' : tmps'[i] < pvReq'
    BY <1>1, <1>2, <1>5 DEF SearchInv, AliasPlaced, Aliasing!AliasPlaced
  <2>3. aliasPc' = "cleanup" /\ \A o \in own' : InTmps(o)' \/ o = <<at, cbReq>>
    BY <1>1, <1>2, <1>5 DEF SearchInv, InTmps
  <2>4. CASE at = pvReq
    <3>1. rcRet' = TRUE
      BY <1>1, <2>4
    <3> QED
      BY <1>1, <1>2, <2>1, <2>2, <2>3, <2>4, <3>1 DEF SearchInv
  <2>5. CASE at # pvReq
    <3>0. at > pvReq
      BY <1>3, <1>5, <2>5 DEF AliasShape
    <3>1. rcRet' = FALSE /\ at > pvReq
      BY <1>1, <2>5, <3>0
    <3>2. \A o \in own' : InTmps(o)' \/ o[1] > pvReq'
      BY <1>2, <2>3, <3>1
    <3>3. \A o, p \in own' : InTmps(o)' \/ InTmps(p)' \/ o = p
      BY <2>3
    <3> QED
      BY <2>1, <2>2, <2>3, <3>1, <3>2, <3>3 DEF SearchInv
  <2> QED
    BY <2>1, <2>4, <2>5, <2>2
<1> QED
  BY <1>4, <1>5

\* Cardinality is the same in each module that takes it from FiniteSets.
LEMMA SameCardinality ==
  ASSUME NEW S
  PROVE  /\ Aliasing!Cardinality(S) = Cardinality(S)
         /\ Listing!Cardinality(S) = Cardinality(S)
  BY DEF Cardinality, Aliasing!Cardinality, Listing!Cardinality

LEMMA AliasCleanupStep ==
  ASSUME AliasInv, Aliasing!Cleanup
  PROVE  AliasInv'
<1> USE DEF AliasInv
<1>1. /\ aliasPc = "cleanup" /\ aliasPc' = "done"
      /\ UNCHANGED <<taken, pvReq, cbReq, tmps, cbTmp, rcRet>>
  BY DEF Aliasing!Cleanup
<1>2. own' = {o \in own : ~InTmps(o)}
  BY DEF Aliasing!Cleanup, InTmps
<1>3. AliasShape'
  BY <1>1, <1>2 DEF AliasShape, Aliasing!Objects, Aliasing!Span
<1>4. SearchInv'
  BY <1>1 DEF SearchInv
<1>5. CASE rcRet = TRUE
  <2>1. ~InTmps(<<pvReq, cbReq>>)
    BY DEF SearchInv, InTmps, AliasShape
  <2>2. own' = {<<pvReq, cbReq>>}
    BY <1>1, <1>2, <1>5, <2>1 DEF SearchInv
  <2> QED
    BY <1>1, <1>3, <1>4, <1>5, <2>2 DEF AliasPlaced, Aliasing!AliasPlaced
<1>6. CASE rcRet = FALSE
  <2>1. \A o, p \in own' : o[1] > pvReq /\ o = p
    BY <1>1, <1>2, <1>6 DEF SearchInv
  <2>2. Cardinality(own') <= 1
    <3>1. CASE own' = {}
      BY <3>1, FS_EmptySet
    <3>2. ASSUME NEW o \in own'
          PROVE  Cardinality(own') <= 1
      <4>1. own' = {o}
        BY <2>1
      <4> QED
        BY <4>1, FS_Singleton
    <3> QED
      BY <3>1, <3>2
  <2>3. \A o \in own' : o[1] > pvReq'
    BY <1>1, <2>1
  <2>5. rcRet' = FALSE
    BY <1>1, <1>6
  <2>4. Aliasing!AliasPlaced'
    BY <2>2, <2>3, <2>5, SameCardinality DEF Aliasing!AliasPlaced
  <2> QED
    BY <1>3, <1>4, <2>4 DEF AliasPlaced
<1> QED
  BY <1>5, <1>6 DEF AliasShape

LEMMA AliasStep ==
  ASSUME AliasInv, [Aliasing!Next]_aliasVars
  PROVE  AliasInv'
<1>1. CASE UNCHANGED aliasVars
  BY <1>1 DEF aliasVars, AliasInv, AliasShape, SearchInv, InTmps, AliasPlaced,
              Aliasing!AliasPlaced, Aliasing!Objects, Aliasing!Span
<1>2. CASE Aliasing!Next
  BY <1>2, AliasSearchStep, AliasBelowStep, AliasAliasStep, AliasCleanupStep DEF Aliasing!Next
<1> QED
  BY <1>1, <1>2

LEMMA LibAliasInv == LibSpec => []AliasInv
<1>1. LibInit => AliasInv
  BY AliasInitInv DEF LibInit
<1>2. AliasInv /\ [LibNext]_libVars => AliasInv'
  <2> SUFFICES ASSUME AliasInv, [LibNext]_libVars
               PROVE  AliasInv'
    OBVIOUS
  <2>1. [Aliasing!Next]_aliasVars
    BY DEF LibNext, libVars
  <2> QED
    BY <2>1, AliasStep
<1> QED
  BY <1>1, <1>2, PTL DEF LibSpec

\* aliasAtAddress() that succeeds has the alias at the address and nothing else left; one
\* that fails leaves nothing.
THEOREM LibAliasPlaced == LibSpec => []AliasPlaced
<1>1. AliasInv => AliasPlaced
  BY DEF AliasInv
<1> QED
  BY <1>1, LibAliasInv, PTL

-----------------------------------------------------------------------------
(***************************************************************************)
(* The functions of other DLLs.                                            *)
(***************************************************************************)
Lookup == {"libcx", "libcx sym", "fallback", "std", "libc", "libc066", "libc sym",
           "second sym", "doscalls"}
ViaLibcx == {"wait", "__waitpid", "DosWaitChild", "spawn2"}

\* The function whose pointer the call of a thread tests.
Of(t) == Loading!Tested(loaderFn[t])
Looks(t) == loaderPc[t] \in Lookup

LoadShape ==
  /\ loaderPc \in [LoaderThreads -> Lookup \cup {"out", "check", "call"}]
  /\ loaderFn \in [LoaderThreads -> Loading!Functions]
  /\ got \in [LoaderThreads ->
       {"-1", "NULL", "libcx0", "std", "libcn0", "libc066", "doscalls", "ENOSYS"}]
  /\ ptr \in [Loading!Functions ->
       {"-1", "NULL", "libcx0", "std", "libcn0", "libc066", "doscalls"}]
  /\ libc \in [{"spawn2.c", "spawni.c"} -> {"-1", "NULL", "libcn0", "libc066"}]
  /\ doscalls \in {"-1", "doscalls"}
  /\ raced \subseteq Loading!Functions

\* The places that a function passes.
Placed(label, f) ==
  /\ label \in {"libcx", "libcx sym"} => f \in ViaLibcx
  /\ label = "fallback" => f \in ViaLibcx \ {"spawn2"}
  /\ label = "std" => f = "wait"
  /\ label = "doscalls" => f = "DosWaitChild"
  /\ label \in {"libc", "libc066", "libc sym"} => f \in {"__waitpid", "posix_spawn", "posix_spawnp"}
  /\ label = "second sym" => f \in {"posix_spawn", "posix_spawnp"}
PlaceInv == \A t \in LoaderThreads : Placed(loaderPc[t], loaderFn[t])

\* The handle of LIBCx.
LibcxInv ==
  /\ libcx \in {"-1", Loading!DlOpen("libcx0")}
  /\ \A t \in LoaderThreads : loaderPc[t] = "libcx sym" => libcx = Loading!DlOpen("libcx0")

\* With LIBCx no call gets past it.
WithAt(t) ==
  /\ loaderPc[t] \in {"out", "libcx", "libcx sym", "fallback", "check", "call"}
  /\ loaderPc[t] \in {"fallback", "check", "call"} => ptr[loaderFn[t]] = "libcx0"
  /\ got[t] \in {"-1", "libcx0"}
WithLibcxInv ==
  "libcx0" \in dlls =>
    /\ \A f \in ViaLibcx : ptr[f] \in {Loading!Unknown(f), "libcx0"}
    /\ \A t \in LoaderThreads : loaderFn[t] \in ViaLibcx => WithAt(t)

\* Without it there is no spawn2().
NoSpawn2Inv ==
  "libcx0" \notin dlls =>
    /\ ptr["spawn2"] \in {"-1", "NULL"}
    /\ \A t \in LoaderThreads :
         loaderFn[t] = "spawn2" =>
           /\ loaderPc[t] # "call" /\ got[t] \in {"-1", "ENOSYS"}
           /\ loaderPc[t] = "check" => ptr["spawn2"] = "NULL"

\* Functions with a fallback whose first calls did not overlap.
Fallbacks == {"wait", "__waitpid", "DosWaitChild", "posix_spawn"}
OfLibc == {"__waitpid", "posix_spawn"}
Serial(f) ==
  f \in Fallbacks /\ f \notin raced /\ ("libcx0" \notin dlls \/ f = "posix_spawn")
LibcDll == IF "libcn0" \in dlls THEN "libcn0" ELSE Loading!DlOpen("libc066")
Final(f) == CASE f = "wait" -> "std" [] f = "DosWaitChild" -> "doscalls"
              [] f \in {"__waitpid", "posix_spawn"} -> LibcDll
Resolved(f) ==
  ptr[f] = Final(f) /\ (f = "posix_spawn" => ptr["posix_spawnp"] = LibcDll)
Handle(f) == libc[Loading!File(f)]
HandleOK(f) == f \in OfLibc => Handle(f) \in {"-1", LibcDll}

\* They are looked up by one thread, once.
OneLooksInv ==
  \A t, u \in LoaderThreads :
    t # u /\ Of(t) = Of(u) /\ Serial(Of(t)) /\ Looks(t) => loaderPc[u] = "out"
CalledAt(t) ==
  /\ loaderPc[t] \in {"check", "call"} => Resolved(Of(t)) /\ HandleOK(Of(t))
  /\ loaderPc[t] = "call" => Final(Of(t)) # "NULL"
  /\ got[t] \in {"-1", Loading!Wanted(loaderFn[t])}
CalledInv == \A t \in LoaderThreads : Serial(Of(t)) => CalledAt(t)
LookedUpAt(t) ==
  /\ loaderPc[t] = "fallback" => ptr[Of(t)] = "NULL"
  /\ loaderPc[t] = "libc066" => "libcn0" \notin dlls
  /\ loaderPc[t] \in {"libc sym", "second sym"} => Handle(Of(t)) = LibcDll
  /\ loaderPc[t] = "second sym" => ptr["posix_spawn"] = LibcDll
  /\ loaderPc[t] \in {"libc", "libcx", "libcx sym", "fallback"} => HandleOK(Of(t))
LookedUpInv == \A t \in LoaderThreads : Serial(Of(t)) => LookedUpAt(t)
Quiet(f) == \A t \in LoaderThreads : Looks(t) => Of(t) # f
QuietInv ==
  \A f \in Fallbacks :
    Serial(f) /\ Quiet(f) =>
      (ptr[f] = Loading!Unknown(f) \/ Resolved(f)) /\ HandleOK(f)

LoadInv ==
  /\ LoadShape /\ PlaceInv /\ LibcxInv /\ WithLibcxInv /\ NoSpawn2Inv
  /\ OneLooksInv /\ CalledInv /\ LookedUpInv /\ QuietInv

LEMMA LoadInitInv ==
  ASSUME Loading!Init
  PROVE  LoadInv
<1> USE DEF Loading!Init, Loading!Unset, Loading!Null, Loading!Unknown, Loading!Functions
<1>1. LoadShape /\ PlaceInv /\ LibcxInv
  BY DEF LoadShape, PlaceInv, Placed, LibcxInv, Lookup
<1>2. WithLibcxInv /\ NoSpawn2Inv
  BY DEF WithLibcxInv, WithAt, NoSpawn2Inv, ViaLibcx
<1>3. OneLooksInv /\ CalledInv /\ LookedUpInv
  BY DEF OneLooksInv, CalledInv, CalledAt, LookedUpInv, LookedUpAt, Looks, Lookup
<1>4. QuietInv
  BY DEF QuietInv, Fallbacks, HandleOK, Handle, OfLibc, Loading!File, Loading!Tested
<1> QED
  BY <1>1, <1>2, <1>3, <1>4 DEF LoadInv

\* What a function is, and what it should become, does not change on the way.
LEMMA SameNames ==
  ASSUME UNCHANGED <<dlls, loaderFn, raced>>
  PROVE  /\ \A t : Of(t)' = Of(t)
         /\ \A f : Serial(f)' = Serial(f)
         /\ \A f : Final(f)' = Final(f)
         /\ \A f : Loading!Wanted(f)' = Loading!Wanted(f)
         /\ LibcDll' = LibcDll
BY DEF Of, Serial, Final, Loading!Wanted, LibcDll, Loading!DlOpen, Loading!Tested

\* A step of a thread that looks a function up: where it goes and what it touches.
LookFrame(t, label) ==
  /\ Looks(t) /\ label \in Lookup \cup {"check"}
  /\ loaderPc' = [loaderPc EXCEPT ![t] = label]
  /\ UNCHANGED <<dlls, loaderFn, raced, got>>
OthersKept(t) ==
  /\ \A f \in Loading!Functions :
       f # Of(t) /\ ~(f = "posix_spawnp" /\ Of(t) = "posix_spawn") => ptr'[f] = ptr[f]
  /\ \A f \in OfLibc : f # Of(t) => Handle(f)' = Handle(f)

LEMMA ShapeStep ==
  ASSUME LoadInv, NEW t \in LoaderThreads, NEW label, LookFrame(t, label),
         ptr' \in [Loading!Functions ->
           {"-1", "NULL", "libcx0", "std", "libcn0", "libc066", "doscalls"}],
         libc' \in [{"spawn2.c", "spawni.c"} -> {"-1", "NULL", "libcn0", "libc066"}],
         doscalls' \in {"-1", "doscalls"}
  PROVE  LoadShape'
<1>1. LoadShape
  BY DEF LoadInv
<1>2. label \in Lookup \cup {"out", "check", "call"}
  BY DEF LookFrame
<1>3. loaderPc' \in [LoaderThreads -> Lookup \cup {"out", "check", "call"}]
  BY <1>1, <1>2 DEF LoadShape, LookFrame
<1> QED
  BY <1>1, <1>3 DEF LoadShape, LookFrame

LEMMA PlaceStep ==
  ASSUME LoadInv, NEW t \in LoaderThreads, NEW label, LookFrame(t, label),
         Placed(label, loaderFn[t])
  PROVE  PlaceInv'
<1>1. /\ loaderPc'[t] = label /\ loaderFn' = loaderFn
      /\ \A u \in LoaderThreads : u # t => loaderPc'[u] = loaderPc[u]
  BY DEF LoadInv, LoadShape, LookFrame
<1>2. \A u \in LoaderThreads : Placed(loaderPc[u], loaderFn[u])
  BY DEF LoadInv, PlaceInv
<1> QED
  BY <1>1, <1>2 DEF PlaceInv

LEMMA NoSpawn2Step ==
  ASSUME LoadInv, NEW t \in LoaderThreads, NEW label, LookFrame(t, label),
         "libcx0" \notin dlls =>
           /\ ptr'["spawn2"] \in {ptr["spawn2"], "NULL"}
           /\ loaderFn[t] = "spawn2" /\ label = "check" => ptr'["spawn2"] = "NULL"
  PROVE  NoSpawn2Inv'
<1>1. /\ loaderFn' = loaderFn /\ got' = got /\ dlls' = dlls
      /\ loaderPc'[t] = label /\ label # "call"
      /\ \A u \in LoaderThreads : u # t => loaderPc'[u] = loaderPc[u]
  BY DEF LoadInv, LoadShape, LookFrame, Lookup
<1>2. NoSpawn2Inv
  BY DEF LoadInv
<1> QED
  BY <1>1, <1>2 DEF NoSpawn2Inv

LEMMA LookStep ==
  ASSUME LoadInv, NEW t \in LoaderThreads, NEW label, LookFrame(t, label), OthersKept(t),
         Serial(Of(t)) => CalledAt(t)' /\ LookedUpAt(t)'
  PROVE  OneLooksInv' /\ CalledInv' /\ LookedUpInv' /\ QuietInv'
<1> USE DEF LoadInv
<1>0. /\ \A u : Of(u)' = Of(u)
      /\ \A f : Serial(f)' = Serial(f)
      /\ \A f : Final(f)' = Final(f)
      /\ \A f : Loading!Wanted(f)' = Loading!Wanted(f)
      /\ LibcDll' = LibcDll
      /\ UNCHANGED <<dlls, loaderFn, raced, got>>
  BY SameNames DEF LookFrame
<1>1. \A u \in LoaderThreads : u # t => loaderPc'[u] = loaderPc[u] /\ (Looks(u)' <=> Looks(u))
  BY DEF LookFrame, LoadShape, Looks
<1>2. loaderPc'[t] = label /\ loaderPc[t] # "out" /\ Looks(t)
  BY DEF LookFrame, LoadShape, Looks, Lookup
<1>3. OneLooksInv'
  <2> SUFFICES ASSUME NEW x \in LoaderThreads, NEW y \in LoaderThreads,
                      x # y, Of(x) = Of(y), Serial(Of(x)), Looks(x)'
               PROVE  loaderPc'[y] = "out"
    BY <1>0 DEF OneLooksInv
  <2>1. Looks(x)
    BY <1>1, <1>2
  <2>2. loaderPc[y] = "out"
    BY <2>1 DEF OneLooksInv
  <2> QED
    BY <2>2, <1>1, <1>2
<1>4. ASSUME NEW f \in Fallbacks, f # Of(t)
      PROVE  Resolved(f)' = Resolved(f) /\ HandleOK(f)' = HandleOK(f) /\ ptr'[f] = ptr[f]
  <2>0. f \in Loading!Functions /\ f # "posix_spawnp"
    BY DEF Fallbacks, Loading!Functions
  <2>3. "posix_spawnp" \in Loading!Functions /\ Of(t) # "posix_spawnp"
    BY DEF Loading!Functions, Of, Loading!Tested
  <2>1. ptr'[f] = ptr[f] /\ (f = "posix_spawn" => ptr'["posix_spawnp"] = ptr["posix_spawnp"])
    BY <1>4, <2>0, <2>3 DEF OthersKept
  <2>2. f \in OfLibc => Handle(f)' = Handle(f)
    BY <1>4 DEF OthersKept
  <2> QED
    BY <1>0, <2>1, <2>2 DEF Resolved, HandleOK
<1>5. ASSUME NEW u \in LoaderThreads, Serial(Of(u)), u # t
      PROVE  CalledAt(u)' /\ LookedUpAt(u)'
  <2>1. CalledAt(u) /\ LookedUpAt(u) /\ Of(u) \in Fallbacks
    BY <1>5 DEF CalledInv, LookedUpInv, Serial
  <2>2. CASE Of(u) = Of(t)
    <3>1. loaderPc'[u] = "out"
      BY <1>1, <1>2, <1>5, <2>2 DEF OneLooksInv
    <3> QED
      BY <1>0, <2>1, <3>1 DEF CalledAt, LookedUpAt
  <2>3. CASE Of(u) # Of(t)
    <3>1. Resolved(Of(u))' = Resolved(Of(u)) /\ HandleOK(Of(u))' = HandleOK(Of(u))
          /\ ptr'[Of(u)] = ptr[Of(u)]
      BY <1>0, <1>4, <2>1, <2>3 DEF Resolved, HandleOK, Handle
    <3>2. CalledAt(u)'
      BY <1>0, <1>1, <1>5, <2>1, <3>1 DEF CalledAt
    <3>3. loaderPc[u] \in {"libc sym", "second sym"} =>
            Handle(Of(u))' = Handle(Of(u)) /\ (loaderPc[u] = "second sym" => Of(u) = "posix_spawn")
      BY <1>0, <2>3 DEF PlaceInv, Placed, Of, Loading!Tested, OthersKept, OfLibc, Handle
    <3>4. LookedUpAt(u)'
      BY <1>0, <1>1, <1>5, <2>1, <3>1, <3>3 DEF LookedUpAt
    <3> QED
      BY <3>2, <3>4
  <2> QED
    BY <2>2, <2>3
<1>6. CalledInv' /\ LookedUpInv'
  BY <1>0, <1>5 DEF CalledInv, LookedUpInv
<1>7. QuietInv'
  <2> SUFFICES ASSUME NEW f \in Fallbacks, Serial(f), Quiet(f)'
               PROVE  (ptr'[f] = Loading!Unknown(f) \/ Resolved(f)') /\ HandleOK(f)'
    BY <1>0 DEF QuietInv, Loading!Unknown, Loading!Null, Loading!Unset
  <2>1. CASE f = Of(t)
    <3>1. ~Looks(t)'
      BY <1>0, <2>1 DEF Quiet
    <3>2. loaderPc'[t] = "check"
      BY <1>2, <3>1 DEF LookFrame, Looks
    <3> QED
      BY <1>0, <2>1, <3>2 DEF CalledAt
  <2>2. CASE f # Of(t)
    <3>1. Quiet(f)
      BY <1>0, <1>1, <2>2 DEF Quiet
    <3> QED
      BY <1>4, <2>2, <3>1 DEF QuietInv
  <2> QED
    BY <2>1, <2>2
<1> QED
  BY <1>3, <1>6, <1>7

\* The same for LIBCx: a pointer changes to a function of LIBCx only.
ToLibcx == \A f \in ViaLibcx : ptr'[f] \in {ptr[f], "libcx0"}

LEMMA WithStep ==
  ASSUME LoadInv, NEW t \in LoaderThreads, NEW label, LookFrame(t, label),
         "libcx0" \in dlls => ToLibcx /\ (loaderFn[t] \in ViaLibcx => WithAt(t)')
  PROVE  WithLibcxInv'
<1> SUFFICES ASSUME "libcx0" \in dlls
             PROVE  /\ \A f \in ViaLibcx : ptr'[f] \in {Loading!Unknown(f), "libcx0"}
                    /\ \A u \in LoaderThreads : loaderFn[u] \in ViaLibcx => WithAt(u)'
  BY DEF WithLibcxInv, LookFrame, Loading!Unknown, Loading!Null, Loading!Unset
<1>1. \A f \in ViaLibcx : ptr'[f] \in {Loading!Unknown(f), "libcx0"}
  BY DEF ToLibcx, LoadInv, WithLibcxInv
<1>2. ASSUME NEW u \in LoaderThreads, loaderFn[u] \in ViaLibcx, u # t
      PROVE  WithAt(u)'
  <2>1. loaderPc'[u] = loaderPc[u] /\ got' = got /\ loaderFn' = loaderFn
    BY <1>2 DEF LookFrame, LoadInv, LoadShape
  <2>2. WithAt(u)
    BY <1>2 DEF LoadInv, WithLibcxInv
  <2>3. ptr'[loaderFn[u]] \in {ptr[loaderFn[u]], "libcx0"}
    BY <1>2 DEF ToLibcx
  <2> QED
    BY <2>1, <2>2, <2>3 DEF WithAt
<1> QED
  BY <1>1, <1>2

\* What a thread that looks a function up has to have at its next place.
LEMMA LookedAt ==
  ASSUME NEW t \in LoaderThreads, NEW label, LoadInv, LookFrame(t, label), Serial(Of(t)),
         label = "check" => Resolved(Of(t))' /\ HandleOK(Of(t))',
         label = "fallback" => ptr'[Of(t)] = "NULL",
         label = "libc066" => "libcn0" \notin dlls,
         label \in {"libc sym", "second sym"} => Handle(Of(t))' = LibcDll,
         label = "second sym" => ptr'["posix_spawn"] = LibcDll,
         label \in {"libc", "libcx", "libcx sym", "fallback"} => HandleOK(Of(t))'
  PROVE  CalledAt(t)' /\ LookedUpAt(t)'
<1>1. UNCHANGED <<dlls, loaderFn, raced, got>> /\ loaderPc'[t] = label
  BY DEF LookFrame, LoadInv, LoadShape, Lookup
<1>2. Of(t)' = Of(t) /\ LibcDll' = LibcDll /\ Loading!Wanted(loaderFn[t])' = Loading!Wanted(loaderFn[t])
  BY <1>1, SameNames
<1>3. CalledAt(t)
  BY DEF LoadInv, CalledInv
<1>4. CalledAt(t)'
  <2>1. label \notin {"call"} /\ label \in Lookup \cup {"check"}
    BY DEF LookFrame, Lookup
  <2>2. loaderPc'[t] \in {"check", "call"} => Resolved(Of(t))' /\ HandleOK(Of(t))'
    BY <1>1, <2>1
  <2>3. got'[t] \in {"-1", Loading!Wanted(loaderFn[t])'}
    BY <1>1, <1>2, <1>3 DEF CalledAt
  <2> QED
    BY <1>1, <2>1, <2>2, <2>3 DEF CalledAt
<1>5. LookedUpAt(t)'
  BY <1>1, <1>2 DEF LookedUpAt
<1> QED
  BY <1>4, <1>5

LEMMA LoadLibcxStep ==
  ASSUME LoadInv, NEW t \in LoaderThreads, Loading!LoadLibcx(t)
  PROVE  LoadInv'
<1> USE DEF LoadInv, Loading!LoadLibcx, Loading!Goto, Loading!Store, Loading!Unset, Loading!Null
<1> DEFINE label == "libcx sym"
<1>l. LookFrame(t, label) /\ loaderPc'[t] = label
  BY DEF LoadShape, PlaceInv, Placed, LookFrame, Looks, Lookup
<1>0. /\ loaderPc' = [loaderPc EXCEPT ![t] = loaderPc'[t]] /\ loaderPc'[t] \in Lookup \cup {"check"}
      /\ UNCHANGED <<dlls, loaderFn, raced, got>>
  BY <1>l DEF LookFrame
<1>1. LoadShape'
  <2>1. ptr' \in [Loading!Functions ->
           {"-1", "NULL", "libcx0", "std", "libcn0", "libc066", "doscalls"}]
    BY DEF LoadShape, LibcxInv, Loading!DlOpen
  <2>2. libc' \in [{"spawn2.c", "spawni.c"} -> {"-1", "NULL", "libcn0", "libc066"}]
    BY DEF LoadShape, Loading!File, Loading!Tested, Loading!DlOpen
  <2>3. doscalls' \in {"-1", "doscalls"}
    BY DEF LoadShape
  <2> HIDE DEF label
  <2> QED
    BY <1>l, <2>1, <2>2, <2>3, ShapeStep
<1>2. PlaceInv'
  <2>1. Placed(label, loaderFn[t])
    BY DEF PlaceInv, Placed, ViaLibcx, Loading!Functions, LoadShape
  <2> HIDE DEF label
  <2> QED
    BY <1>l, <2>1, PlaceStep
<1>3. LibcxInv'
  BY <1>0 DEF LoadShape, PlaceInv, Placed, LibcxInv, Loading!DlOpen, LookFrame
<1>w. ASSUME "libcx0" \in dlls
      PROVE  ToLibcx /\ (loaderFn[t] \in ViaLibcx => WithAt(t)')
  <2> QED
    BY <1>w, <1>l DEF ToLibcx, WithAt, LookFrame, LoadShape, WithLibcxInv
<1>4. WithLibcxInv'
  BY <1>l, <1>w, WithStep
<1>5. NoSpawn2Inv'
  <2>1. ptr'["spawn2"] = ptr["spawn2"] /\ label # "check"
    OBVIOUS
  <2> HIDE DEF label
  <2> QED
    BY <1>l, <2>1, NoSpawn2Step
<1>6. OthersKept(t)
  BY DEF LoadShape, PlaceInv, Placed, OthersKept, Of, Handle, OfLibc, ViaLibcx, Loading!Functions, Loading!Tested, Loading!File
<1>7. ASSUME Serial(Of(t))
      PROVE  CalledAt(t)' /\ LookedUpAt(t)'
  <2>1. HandleOK(Of(t))
    BY <1>7 DEF LookedUpInv, LookedUpAt
  <2>2. HandleOK(Of(t))'
    BY <1>l, <2>1, SameNames DEF HandleOK, Handle, LookFrame
  <2> QED
    BY <1>l, <1>7, <2>2, LookedAt
<1> QED
  BY <1>l, <1>1, <1>2, <1>3, <1>4, <1>5, <1>6, <1>7, LookStep

LEMMA SymLibcxStep ==
  ASSUME LoadInv, NEW t \in LoaderThreads, Loading!SymLibcx(t)
  PROVE  LoadInv'
<1> USE DEF LoadInv, Loading!SymLibcx, Loading!Goto, Loading!Store, Loading!Unset, Loading!Null
<1> DEFINE label == IF loaderFn[t] = "spawn2" THEN "check" ELSE "fallback"
<1>l. LookFrame(t, label) /\ loaderPc'[t] = label
  BY DEF LoadShape, PlaceInv, Placed, LookFrame, Looks, Lookup, ViaLibcx
<1>0. /\ loaderPc' = [loaderPc EXCEPT ![t] = loaderPc'[t]] /\ loaderPc'[t] \in Lookup \cup {"check"}
      /\ UNCHANGED <<dlls, loaderFn, raced, got>>
  BY <1>l DEF LookFrame
<1>1. LoadShape'
  <2>1. ptr' \in [Loading!Functions ->
           {"-1", "NULL", "libcx0", "std", "libcn0", "libc066", "doscalls"}]
    BY DEF LoadShape, LibcxInv, Loading!DlOpen
  <2>2. libc' \in [{"spawn2.c", "spawni.c"} -> {"-1", "NULL", "libcn0", "libc066"}]
    BY DEF LoadShape, Loading!File, Loading!Tested, Loading!DlOpen
  <2>3. doscalls' \in {"-1", "doscalls"}
    BY DEF LoadShape
  <2> HIDE DEF label
  <2> QED
    BY <1>l, <2>1, <2>2, <2>3, ShapeStep
<1>2. PlaceInv'
  <2>1. Placed(label, loaderFn[t])
    BY DEF PlaceInv, Placed, ViaLibcx, Loading!Functions, LoadShape
  <2> HIDE DEF label
  <2> QED
    BY <1>l, <2>1, PlaceStep
<1>3. LibcxInv'
  BY <1>0 DEF LoadShape, PlaceInv, Placed, LibcxInv, Loading!DlOpen, LookFrame
<1>w. ASSUME "libcx0" \in dlls
      PROVE  ToLibcx /\ (loaderFn[t] \in ViaLibcx => WithAt(t)')
  <2>1. libcx = "libcx0" /\ ptr' = [ptr EXCEPT ![loaderFn[t]] = "libcx0"] /\ loaderFn[t] \in DOMAIN ptr
    BY <1>w DEF LibcxInv, Loading!DlOpen, LoadShape
  <2>2. WithAt(t) /\ loaderPc'[t] \in {"check", "fallback"} /\ loaderFn' = loaderFn /\ got' = got
    BY <1>w, <1>l DEF WithLibcxInv, PlaceInv, Placed, LookFrame, LoadShape
  <2>3. ViaLibcx \subseteq DOMAIN ptr
    BY DEF LoadShape, ViaLibcx, Loading!Functions
  <2> QED
    BY <2>1, <2>2, <2>3 DEF ToLibcx, WithAt
<1>4. WithLibcxInv'
  BY <1>l, <1>w, WithStep
<1>5. NoSpawn2Inv'
  <2>1. "libcx0" \notin dlls => libcx = "NULL"
    BY DEF LibcxInv, Loading!DlOpen
  <2>2. "libcx0" \notin dlls =>
          /\ ptr'["spawn2"] \in {ptr["spawn2"], "NULL"}
          /\ loaderFn[t] = "spawn2" => ptr'["spawn2"] = "NULL"
    BY <2>1 DEF LoadShape, Loading!Functions
  <2> HIDE DEF label
  <2> QED
    BY <1>l, <2>2, NoSpawn2Step
<1>6. OthersKept(t)
  BY DEF LoadShape, PlaceInv, Placed, OthersKept, Of, Handle, OfLibc, ViaLibcx, Loading!Functions, Loading!Tested, Loading!File
<1>7. ASSUME Serial(Of(t))
      PROVE  CalledAt(t)' /\ LookedUpAt(t)'
  <2>0. Of(t) = loaderFn[t] /\ loaderFn[t] # "spawn2" /\ loaderFn[t] \in Loading!Functions /\ "libcx0" \notin dlls
    BY <1>7 DEF PlaceInv, Placed, Of, Serial, Fallbacks, ViaLibcx, Loading!Tested, LoadShape
  <2>1. HandleOK(Of(t))
    BY <1>7 DEF LookedUpInv, LookedUpAt
  <2>2. HandleOK(Of(t))'
    BY <1>l, <2>1, SameNames DEF HandleOK, Handle, LookFrame
  <2>3. ptr'[Of(t)] = "NULL"
    BY <2>0 DEF LibcxInv, Loading!DlOpen, LoadShape
  <2> QED
    BY <1>l, <1>7, <2>0, <2>2, <2>3, LookedAt
<1> QED
  BY <1>l, <1>1, <1>2, <1>3, <1>4, <1>5, <1>6, <1>7, LookStep

LEMMA FallbackStep ==
  ASSUME LoadInv, NEW t \in LoaderThreads, Loading!Fallback(t)
  PROVE  LoadInv'
<1> USE DEF LoadInv, Loading!Fallback, Loading!Goto, Loading!Store, Loading!Unset, Loading!Null
<1> DEFINE label == CASE ptr[loaderFn[t]] # "NULL" -> "check"
                 [] ptr[loaderFn[t]] = "NULL" /\ loaderFn[t] = "wait" -> "std"
                 [] ptr[loaderFn[t]] = "NULL" /\ loaderFn[t] = "__waitpid" -> "libc"
                 [] ptr[loaderFn[t]] = "NULL" /\ loaderFn[t] = "DosWaitChild" -> "doscalls"
<1>l. LookFrame(t, label) /\ loaderPc'[t] = label
  BY DEF LoadShape, PlaceInv, Placed, LookFrame, Looks, Lookup, ViaLibcx
<1>0. /\ loaderPc' = [loaderPc EXCEPT ![t] = loaderPc'[t]] /\ loaderPc'[t] \in Lookup \cup {"check"}
      /\ UNCHANGED <<dlls, loaderFn, raced, got>>
  BY <1>l DEF LookFrame
<1>1. LoadShape'
  <2>1. ptr' \in [Loading!Functions ->
           {"-1", "NULL", "libcx0", "std", "libcn0", "libc066", "doscalls"}]
    BY DEF LoadShape, LibcxInv, Loading!DlOpen
  <2>2. libc' \in [{"spawn2.c", "spawni.c"} -> {"-1", "NULL", "libcn0", "libc066"}]
    BY DEF LoadShape, Loading!File, Loading!Tested, Loading!DlOpen
  <2>3. doscalls' \in {"-1", "doscalls"}
    BY DEF LoadShape
  <2> HIDE DEF label
  <2> QED
    BY <1>l, <2>1, <2>2, <2>3, ShapeStep
<1>2. PlaceInv'
  <2>1. Placed(label, loaderFn[t])
    BY DEF PlaceInv, Placed, ViaLibcx, Loading!Functions, LoadShape
  <2> HIDE DEF label
  <2> QED
    BY <1>l, <2>1, PlaceStep
<1>8. loaderPc'[t] \in {"check", "std", "libc", "doscalls"}
  BY <1>l DEF PlaceInv, Placed, ViaLibcx
<1>3. LibcxInv'
  BY <1>0, <1>8 DEF LoadShape, PlaceInv, Placed, LibcxInv, Loading!DlOpen, LookFrame
<1>w. ASSUME "libcx0" \in dlls
      PROVE  ToLibcx /\ (loaderFn[t] \in ViaLibcx => WithAt(t)')
  <2>1. WithAt(t) /\ loaderFn[t] \in ViaLibcx
    BY <1>w DEF WithLibcxInv, PlaceInv, Placed
  <2>2. loaderPc'[t] = "check" /\ loaderFn' = loaderFn /\ got' = got /\ ptr' = ptr
    BY <1>l, <2>1 DEF WithAt, LookFrame
  <2>3. ViaLibcx \subseteq DOMAIN ptr
    BY DEF LoadShape, ViaLibcx, Loading!Functions
  <2> QED
    BY <2>1, <2>2, <2>3 DEF ToLibcx, WithAt
<1>4. WithLibcxInv'
  BY <1>l, <1>w, WithStep
<1>5. NoSpawn2Inv'
  <2>1. ptr'["spawn2"] = ptr["spawn2"]
    BY DEF LoadShape, PlaceInv, Placed, Loading!Functions, Loading!Tested
  <2>2. loaderFn[t] # "spawn2"
    BY DEF PlaceInv, Placed
  <2> HIDE DEF label
  <2> QED
    BY <1>l, <2>1, <2>2, NoSpawn2Step
<1>6. OthersKept(t)
  BY DEF LoadShape, PlaceInv, Placed, OthersKept, Of, Handle, OfLibc, ViaLibcx, Loading!Functions, Loading!Tested, Loading!File
<1>7. ASSUME Serial(Of(t))
      PROVE  CalledAt(t)' /\ LookedUpAt(t)'
  <2>0. Of(t) = loaderFn[t]
    BY DEF PlaceInv, Placed, Of, ViaLibcx, Loading!Tested
  <2>1. HandleOK(Of(t)) /\ ptr[Of(t)] = "NULL"
    BY <1>7 DEF LookedUpInv, LookedUpAt
  <2>2. HandleOK(Of(t))'
    BY <1>l, <2>1, SameNames DEF HandleOK, Handle, LookFrame
  <2>3. loaderPc'[t] \in {"std", "libc", "doscalls"}
    BY <1>l, <2>0, <2>1 DEF PlaceInv, Placed, ViaLibcx
  <2> QED
    BY <1>l, <1>7, <2>2, <2>3, LookedAt
<1> QED
  BY <1>l, <1>1, <1>2, <1>3, <1>4, <1>5, <1>6, <1>7, LookStep

LEMMA StdStep ==
  ASSUME LoadInv, NEW t \in LoaderThreads, Loading!Std(t)
  PROVE  LoadInv'
<1> USE DEF LoadInv, Loading!Std, Loading!Goto, Loading!Store, Loading!Unset, Loading!Null
<1> DEFINE label == "check"
<1>l. LookFrame(t, label) /\ loaderPc'[t] = label
  BY DEF LoadShape, PlaceInv, Placed, LookFrame, Looks, Lookup
<1>0. /\ loaderPc' = [loaderPc EXCEPT ![t] = loaderPc'[t]] /\ loaderPc'[t] \in Lookup \cup {"check"}
      /\ UNCHANGED <<dlls, loaderFn, raced, got>>
  BY <1>l DEF LookFrame
<1>1. LoadShape'
  <2>1. ptr' \in [Loading!Functions ->
           {"-1", "NULL", "libcx0", "std", "libcn0", "libc066", "doscalls"}]
    BY DEF LoadShape, LibcxInv, Loading!DlOpen
  <2>2. libc' \in [{"spawn2.c", "spawni.c"} -> {"-1", "NULL", "libcn0", "libc066"}]
    BY DEF LoadShape, Loading!File, Loading!Tested, Loading!DlOpen
  <2>3. doscalls' \in {"-1", "doscalls"}
    BY DEF LoadShape
  <2> HIDE DEF label
  <2> QED
    BY <1>l, <2>1, <2>2, <2>3, ShapeStep
<1>2. PlaceInv'
  <2>1. Placed(label, loaderFn[t])
    BY DEF PlaceInv, Placed, ViaLibcx, Loading!Functions, LoadShape
  <2> HIDE DEF label
  <2> QED
    BY <1>l, <2>1, PlaceStep
<1>3. LibcxInv'
  BY <1>0 DEF LoadShape, PlaceInv, Placed, LibcxInv, Loading!DlOpen, LookFrame
<1>w. ASSUME "libcx0" \in dlls
      PROVE  ToLibcx /\ (loaderFn[t] \in ViaLibcx => WithAt(t)')
  <2>1. loaderFn[t] \notin ViaLibcx
    BY <1>w DEF WithLibcxInv, WithAt
  <2>2. \A f \in ViaLibcx : ptr'[f] = ptr[f]
    BY <2>1 DEF PlaceInv, Placed, LoadShape, ViaLibcx, Loading!Tested, Loading!Functions
  <2> QED
    BY <2>1, <2>2 DEF ToLibcx
<1>4. WithLibcxInv'
  BY <1>l, <1>w, WithStep
<1>5. NoSpawn2Inv'
  <2>1. ptr'["spawn2"] = ptr["spawn2"]
    BY DEF LoadShape, PlaceInv, Placed, Loading!Functions, Loading!Tested
  <2>2. loaderFn[t] # "spawn2"
    BY DEF PlaceInv, Placed
  <2> HIDE DEF label
  <2> QED
    BY <1>l, <2>1, <2>2, NoSpawn2Step
<1>6. OthersKept(t)
  BY DEF LoadShape, PlaceInv, Placed, OthersKept, Of, Handle, OfLibc, ViaLibcx, Loading!Functions, Loading!Tested, Loading!File
<1>7. ASSUME Serial(Of(t))
      PROVE  CalledAt(t)' /\ LookedUpAt(t)'
  <2>1. Of(t) = "wait" /\ ptr'["wait"] = "std"
    BY DEF PlaceInv, Placed, Of, Loading!Tested, LoadShape, Loading!Functions
  <2>2. Resolved(Of(t))' /\ HandleOK(Of(t))'
    BY <1>0, <2>1, SameNames DEF Resolved, Final, HandleOK, OfLibc
  <2> QED
    BY <1>l, <1>7, <2>2, LookedAt
<1> QED
  BY <1>l, <1>1, <1>2, <1>3, <1>4, <1>5, <1>6, <1>7, LookStep

LEMMA LoadLibcStep ==
  ASSUME LoadInv, NEW t \in LoaderThreads, Loading!LoadLibc(t)
  PROVE  LoadInv'
<1> USE DEF LoadInv, Loading!LoadLibc, Loading!Goto, Loading!Store, Loading!Unset, Loading!Null
<1> DEFINE label == IF libc[Loading!File(loaderFn[t])] = "-1"
                         /\ libc'[Loading!File(loaderFn[t])] = "NULL" THEN "libc066" ELSE "libc sym"
<1>l. LookFrame(t, label) /\ loaderPc'[t] = label
  BY DEF LoadShape, PlaceInv, Placed, LookFrame, Looks, Lookup, Loading!DlOpen, Loading!File, Loading!Tested
<1>0. /\ loaderPc' = [loaderPc EXCEPT ![t] = loaderPc'[t]] /\ loaderPc'[t] \in Lookup \cup {"check"}
      /\ UNCHANGED <<dlls, loaderFn, raced, got>>
  BY <1>l DEF LookFrame
<1>1. LoadShape'
  <2>1. ptr' \in [Loading!Functions ->
           {"-1", "NULL", "libcx0", "std", "libcn0", "libc066", "doscalls"}]
    BY DEF LoadShape, LibcxInv, Loading!DlOpen
  <2>2. libc' \in [{"spawn2.c", "spawni.c"} -> {"-1", "NULL", "libcn0", "libc066"}]
    BY DEF LoadShape, Loading!File, Loading!Tested, Loading!DlOpen
  <2>3. doscalls' \in {"-1", "doscalls"}
    BY DEF LoadShape
  <2> HIDE DEF label
  <2> QED
    BY <1>l, <2>1, <2>2, <2>3, ShapeStep
<1>2. PlaceInv'
  <2>1. Placed(label, loaderFn[t])
    BY DEF PlaceInv, Placed, ViaLibcx, Loading!Functions, LoadShape
  <2> HIDE DEF label
  <2> QED
    BY <1>l, <2>1, PlaceStep
<1>3. LibcxInv'
  BY <1>0 DEF LoadShape, PlaceInv, Placed, LibcxInv, Loading!DlOpen, LookFrame
<1>w. ASSUME "libcx0" \in dlls
      PROVE  ToLibcx /\ (loaderFn[t] \in ViaLibcx => WithAt(t)')
  <2>1. loaderFn[t] \notin ViaLibcx
    BY <1>w DEF WithLibcxInv, WithAt
  <2>2. \A f \in ViaLibcx : ptr'[f] = ptr[f]
    BY <2>1 DEF PlaceInv, Placed, LoadShape, ViaLibcx, Loading!Tested, Loading!Functions
  <2> QED
    BY <2>1, <2>2 DEF ToLibcx
<1>4. WithLibcxInv'
  BY <1>l, <1>w, WithStep
<1>5. NoSpawn2Inv'
  <2>1. ptr'["spawn2"] = ptr["spawn2"]
    BY DEF LoadShape, PlaceInv, Placed, Loading!Functions, Loading!Tested
  <2>2. loaderFn[t] # "spawn2"
    BY DEF PlaceInv, Placed
  <2> HIDE DEF label
  <2> QED
    BY <1>l, <2>1, <2>2, NoSpawn2Step
<1>6. OthersKept(t)
  BY DEF LoadShape, PlaceInv, Placed, OthersKept, Of, Handle, OfLibc, ViaLibcx, Loading!Functions, Loading!Tested, Loading!File
<1>7. ASSUME Serial(Of(t))
      PROVE  CalledAt(t)' /\ LookedUpAt(t)'
  <2> DEFINE file == Loading!File(loaderFn[t])
  <2>0. Of(t) \in OfLibc /\ Loading!File(Of(t)) = file /\ file \in {"spawn2.c", "spawni.c"}
    BY DEF PlaceInv, Placed, Of, OfLibc, Loading!Tested, Loading!File
  <2>1. libc[file] \in {"-1", LibcDll}
    BY <1>7, <2>0 DEF LookedUpInv, LookedUpAt, HandleOK, Handle
  <2>2. libc'[file] = IF libc[file] = "-1" THEN Loading!DlOpen("libcn0") ELSE libc[file]
    BY <2>0 DEF LoadShape
  <2>3. CASE libc'[file] = LibcDll /\ loaderPc'[t] = "libc sym"
    <3>1. Handle(Of(t))' = LibcDll
      BY <1>l, <2>0, <2>3, SameNames DEF Handle, LookFrame, Of, Loading!File, Loading!Tested
    <3> QED
      BY <1>l, <1>7, <2>3, <3>1, LookedAt
  <2>4. CASE loaderPc'[t] = "libc066" /\ "libcn0" \notin dlls
    BY <1>l, <1>7, <2>4, LookedAt
  <2>5. LibcDll \in {"libcn0", "libc066", "NULL"}
    BY DEF LibcDll, Loading!DlOpen
  <2>6. CASE libc[file] = "-1" /\ "libcn0" \in dlls
    <3>1. libc'[file] = "libcn0" /\ LibcDll = "libcn0"
      BY <2>2, <2>6 DEF LibcDll, Loading!DlOpen
    <3> QED
      BY <1>l, <2>3, <2>6, <3>1
  <2>7. CASE libc[file] = "-1" /\ "libcn0" \notin dlls
    <3>1. libc'[file] = "NULL"
      BY <2>2, <2>7 DEF Loading!DlOpen
    <3> QED
      BY <1>l, <2>4, <2>7, <3>1
  <2>8. CASE libc[file] # "-1"
    <3>1. libc'[file] = LibcDll
      BY <2>1, <2>2, <2>8
    <3> QED
      BY <1>l, <2>3, <2>8, <3>1
  <2> QED
    BY <2>6, <2>7, <2>8
<1> QED
  BY <1>l, <1>1, <1>2, <1>3, <1>4, <1>5, <1>6, <1>7, LookStep

LEMMA LoadLibc066Step ==
  ASSUME LoadInv, NEW t \in LoaderThreads, Loading!LoadLibc066(t)
  PROVE  LoadInv'
<1> USE DEF LoadInv, Loading!LoadLibc066, Loading!Goto, Loading!Store, Loading!Unset, Loading!Null
<1> DEFINE label == "libc sym"
<1>l. LookFrame(t, label) /\ loaderPc'[t] = label
  BY DEF LoadShape, PlaceInv, Placed, LookFrame, Looks, Lookup
<1>0. /\ loaderPc' = [loaderPc EXCEPT ![t] = loaderPc'[t]] /\ loaderPc'[t] \in Lookup \cup {"check"}
      /\ UNCHANGED <<dlls, loaderFn, raced, got>>
  BY <1>l DEF LookFrame
<1>1. LoadShape'
  <2>1. ptr' \in [Loading!Functions ->
           {"-1", "NULL", "libcx0", "std", "libcn0", "libc066", "doscalls"}]
    BY DEF LoadShape, LibcxInv, Loading!DlOpen
  <2>2. libc' \in [{"spawn2.c", "spawni.c"} -> {"-1", "NULL", "libcn0", "libc066"}]
    BY DEF LoadShape, Loading!File, Loading!Tested, Loading!DlOpen
  <2>3. doscalls' \in {"-1", "doscalls"}
    BY DEF LoadShape
  <2> HIDE DEF label
  <2> QED
    BY <1>l, <2>1, <2>2, <2>3, ShapeStep
<1>2. PlaceInv'
  <2>1. Placed(label, loaderFn[t])
    BY DEF PlaceInv, Placed, ViaLibcx, Loading!Functions, LoadShape
  <2> HIDE DEF label
  <2> QED
    BY <1>l, <2>1, PlaceStep
<1>3. LibcxInv'
  BY <1>0 DEF LoadShape, PlaceInv, Placed, LibcxInv, Loading!DlOpen, LookFrame
<1>w. ASSUME "libcx0" \in dlls
      PROVE  ToLibcx /\ (loaderFn[t] \in ViaLibcx => WithAt(t)')
  <2>1. loaderFn[t] \notin ViaLibcx
    BY <1>w DEF WithLibcxInv, WithAt
  <2>2. \A f \in ViaLibcx : ptr'[f] = ptr[f]
    BY <2>1 DEF PlaceInv, Placed, LoadShape, ViaLibcx, Loading!Tested, Loading!Functions
  <2> QED
    BY <2>1, <2>2 DEF ToLibcx
<1>4. WithLibcxInv'
  BY <1>l, <1>w, WithStep
<1>5. NoSpawn2Inv'
  <2>1. ptr'["spawn2"] = ptr["spawn2"]
    BY DEF LoadShape, PlaceInv, Placed, Loading!Functions, Loading!Tested
  <2>2. loaderFn[t] # "spawn2"
    BY DEF PlaceInv, Placed
  <2> HIDE DEF label
  <2> QED
    BY <1>l, <2>1, <2>2, NoSpawn2Step
<1>6. OthersKept(t)
  BY DEF LoadShape, PlaceInv, Placed, OthersKept, Of, Handle, OfLibc, ViaLibcx, Loading!Functions, Loading!Tested, Loading!File
<1>7. ASSUME Serial(Of(t))
      PROVE  CalledAt(t)' /\ LookedUpAt(t)'
  <2> DEFINE file == Loading!File(loaderFn[t])
  <2>0. Of(t) \in OfLibc /\ Loading!File(Of(t)) = file /\ file \in {"spawn2.c", "spawni.c"}
    BY DEF PlaceInv, Placed, Of, OfLibc, Loading!Tested, Loading!File
  <2>1. "libcn0" \notin dlls
    BY <1>7 DEF LookedUpInv, LookedUpAt
  <2>2. libc'[file] = LibcDll
    BY <2>0, <2>1 DEF LoadShape, LibcDll
  <2>3. Handle(Of(t))' = LibcDll
    BY <1>l, <2>0, <2>2, SameNames DEF Handle, LookFrame, Of, Loading!File, Loading!Tested
  <2> QED
    BY <1>l, <1>7, <2>3, LookedAt
<1> QED
  BY <1>l, <1>1, <1>2, <1>3, <1>4, <1>5, <1>6, <1>7, LookStep

LEMMA SymLibcStep ==
  ASSUME LoadInv, NEW t \in LoaderThreads, Loading!SymLibc(t)
  PROVE  LoadInv'
<1> USE DEF LoadInv, Loading!SymLibc, Loading!Goto, Loading!Store, Loading!Unset, Loading!Null
<1> DEFINE label == IF loaderFn[t] = "__waitpid" THEN "check" ELSE "second sym"
<1>l. LookFrame(t, label) /\ loaderPc'[t] = label
  BY DEF LoadShape, PlaceInv, Placed, LookFrame, Looks, Lookup
<1>0. /\ loaderPc' = [loaderPc EXCEPT ![t] = loaderPc'[t]] /\ loaderPc'[t] \in Lookup \cup {"check"}
      /\ UNCHANGED <<dlls, loaderFn, raced, got>>
  BY <1>l DEF LookFrame
<1>1. LoadShape'
  <2>1. ptr' \in [Loading!Functions ->
           {"-1", "NULL", "libcx0", "std", "libcn0", "libc066", "doscalls"}]
    <3>1. ptr \in [Loading!Functions ->
             {"-1", "NULL", "libcx0", "std", "libcn0", "libc066", "doscalls"}]
      BY DEF LoadShape
    <3> DEFINE h == libc[Loading!File(loaderFn[t])]
               p == Loading!Tested(loaderFn[t])
    <3>2. h \in {"-1", "NULL", "libcn0", "libc066"}
      BY DEF LoadShape, Loading!File
    <3>3. ptr' = [ptr EXCEPT ![p] = h]
      OBVIOUS
    <3> HIDE DEF h, p
    <3> QED
      BY ONLY <3>1, <3>2, <3>3
  <2>2. libc' \in [{"spawn2.c", "spawni.c"} -> {"-1", "NULL", "libcn0", "libc066"}]
    BY DEF LoadShape, Loading!File, Loading!Tested, Loading!DlOpen
  <2>3. doscalls' \in {"-1", "doscalls"}
    BY DEF LoadShape
  <2> HIDE DEF label
  <2> QED
    BY <1>l, <2>1, <2>2, <2>3, ShapeStep
<1>2. PlaceInv'
  <2>1. Placed(label, loaderFn[t])
    BY DEF PlaceInv, Placed, ViaLibcx, Loading!Functions, LoadShape
  <2> HIDE DEF label
  <2> QED
    BY <1>l, <2>1, PlaceStep
<1>3. LibcxInv'
  BY <1>0 DEF LoadShape, PlaceInv, Placed, LibcxInv, Loading!DlOpen, LookFrame
<1>w. ASSUME "libcx0" \in dlls
      PROVE  ToLibcx /\ (loaderFn[t] \in ViaLibcx => WithAt(t)')
  <2>1. loaderFn[t] \notin ViaLibcx
    BY <1>w DEF WithLibcxInv, WithAt
  <2>2. \A f \in ViaLibcx : ptr'[f] = ptr[f]
    BY <2>1 DEF PlaceInv, Placed, LoadShape, ViaLibcx, Loading!Tested, Loading!Functions
  <2> QED
    BY <2>1, <2>2 DEF ToLibcx
<1>4. WithLibcxInv'
  BY <1>l, <1>w, WithStep
<1>5. NoSpawn2Inv'
  <2>1. ptr'["spawn2"] = ptr["spawn2"]
    BY DEF LoadShape, PlaceInv, Placed, Loading!Functions, Loading!Tested
  <2>2. loaderFn[t] # "spawn2"
    BY DEF PlaceInv, Placed
  <2> HIDE DEF label
  <2> QED
    BY <1>l, <2>1, <2>2, NoSpawn2Step
<1>6. OthersKept(t)
  BY DEF LoadShape, PlaceInv, Placed, OthersKept, Of, Handle, OfLibc, ViaLibcx, Loading!Functions, Loading!Tested, Loading!File
<1>7. ASSUME Serial(Of(t))
      PROVE  CalledAt(t)' /\ LookedUpAt(t)'
  <2> DEFINE file == Loading!File(loaderFn[t])
  <2>0. /\ Of(t) \in OfLibc /\ Loading!File(Of(t)) = file /\ Loading!Tested(loaderFn[t]) = Of(t)
        /\ Of(t) = "__waitpid" <=> loaderFn[t] = "__waitpid"
    BY DEF PlaceInv, Placed, Of, OfLibc, Loading!Tested, Loading!File
  <2>1. libc[file] = LibcDll
    BY <1>7, <2>0 DEF LookedUpInv, LookedUpAt, Handle
  <2>2. ptr'[Of(t)] = LibcDll
    BY <2>0, <2>1 DEF LoadShape, OfLibc, Loading!Functions
  <2>3. Handle(Of(t))' = LibcDll
    BY <1>l, <2>0, <2>1, SameNames DEF Handle, LookFrame, Of, Loading!File, Loading!Tested
  <2>4. HandleOK(Of(t))'
    BY <1>l, <2>3, SameNames DEF HandleOK, LookFrame, Handle
  <2>5. CASE Of(t) = "__waitpid"
    <3>1. Resolved(Of(t))'
      BY <1>l, <2>2, <2>5, SameNames DEF Resolved, Final, LookFrame
    <3> QED
      BY <1>l, <1>7, <2>0, <2>4, <2>5, <3>1, LookedAt
  <2>6. CASE Of(t) = "posix_spawn"
    BY <1>l, <1>7, <2>0, <2>2, <2>3, <2>6, LookedAt
  <2> QED
    BY <2>0, <2>5, <2>6 DEF OfLibc
<1> QED
  BY <1>l, <1>1, <1>2, <1>3, <1>4, <1>5, <1>6, <1>7, LookStep

LEMMA SymSecondStep ==
  ASSUME LoadInv, NEW t \in LoaderThreads, Loading!SymSecond(t)
  PROVE  LoadInv'
<1> USE DEF LoadInv, Loading!SymSecond, Loading!Goto, Loading!Store, Loading!Unset, Loading!Null
<1> DEFINE label == "check"
<1>l. LookFrame(t, label) /\ loaderPc'[t] = label
  BY DEF LoadShape, PlaceInv, Placed, LookFrame, Looks, Lookup
<1>0. /\ loaderPc' = [loaderPc EXCEPT ![t] = loaderPc'[t]] /\ loaderPc'[t] \in Lookup \cup {"check"}
      /\ UNCHANGED <<dlls, loaderFn, raced, got>>
  BY <1>l DEF LookFrame
<1>1. LoadShape'
  <2>1. ptr' \in [Loading!Functions ->
           {"-1", "NULL", "libcx0", "std", "libcn0", "libc066", "doscalls"}]
    BY DEF LoadShape, LibcxInv, Loading!DlOpen
  <2>2. libc' \in [{"spawn2.c", "spawni.c"} -> {"-1", "NULL", "libcn0", "libc066"}]
    BY DEF LoadShape, Loading!File, Loading!Tested, Loading!DlOpen
  <2>3. doscalls' \in {"-1", "doscalls"}
    BY DEF LoadShape
  <2> HIDE DEF label
  <2> QED
    BY <1>l, <2>1, <2>2, <2>3, ShapeStep
<1>2. PlaceInv'
  <2>1. Placed(label, loaderFn[t])
    BY DEF PlaceInv, Placed, ViaLibcx, Loading!Functions, LoadShape
  <2> HIDE DEF label
  <2> QED
    BY <1>l, <2>1, PlaceStep
<1>3. LibcxInv'
  BY <1>0 DEF LoadShape, PlaceInv, Placed, LibcxInv, Loading!DlOpen, LookFrame
<1>w. ASSUME "libcx0" \in dlls
      PROVE  ToLibcx /\ (loaderFn[t] \in ViaLibcx => WithAt(t)')
  <2>1. loaderFn[t] \notin ViaLibcx
    BY <1>w DEF WithLibcxInv, WithAt
  <2>2. \A f \in ViaLibcx : ptr'[f] = ptr[f]
    BY <2>1 DEF PlaceInv, Placed, LoadShape, ViaLibcx, Loading!Tested, Loading!Functions
  <2> QED
    BY <2>1, <2>2 DEF ToLibcx
<1>4. WithLibcxInv'
  BY <1>l, <1>w, WithStep
<1>5. NoSpawn2Inv'
  <2>1. ptr'["spawn2"] = ptr["spawn2"]
    BY DEF LoadShape, PlaceInv, Placed, Loading!Functions, Loading!Tested
  <2>2. loaderFn[t] # "spawn2"
    BY DEF PlaceInv, Placed
  <2> HIDE DEF label
  <2> QED
    BY <1>l, <2>1, <2>2, NoSpawn2Step
<1>6. OthersKept(t)
  BY DEF LoadShape, PlaceInv, Placed, OthersKept, Of, Handle, OfLibc, ViaLibcx, Loading!Functions, Loading!Tested, Loading!File
<1>7. ASSUME Serial(Of(t))
      PROVE  CalledAt(t)' /\ LookedUpAt(t)'
  <2>0. Of(t) = "posix_spawn" /\ Loading!File(Of(t)) = "spawni.c"
    BY DEF PlaceInv, Placed, Of, Loading!Tested, Loading!File
  <2>1. libc["spawni.c"] = LibcDll /\ ptr["posix_spawn"] = LibcDll
    BY <1>7, <2>0 DEF LookedUpInv, LookedUpAt, Handle
  <2>2. ptr'["posix_spawn"] = LibcDll /\ ptr'["posix_spawnp"] = LibcDll
    BY <2>1 DEF LoadShape, Loading!Functions
  <2>3. Resolved(Of(t))'
    BY <1>l, <2>0, <2>2, SameNames DEF Resolved, Final, LookFrame
  <2>4. HandleOK(Of(t))'
    BY <1>l, <2>0, <2>1, SameNames DEF HandleOK, Handle, LookFrame
  <2> QED
    BY <1>l, <1>7, <2>3, <2>4, LookedAt
<1> QED
  BY <1>l, <1>1, <1>2, <1>3, <1>4, <1>5, <1>6, <1>7, LookStep

LEMMA SymDoscallsStep ==
  ASSUME LoadInv, NEW t \in LoaderThreads, Loading!SymDoscalls(t)
  PROVE  LoadInv'
<1> USE DEF LoadInv, Loading!SymDoscalls, Loading!Goto, Loading!Store, Loading!Unset, Loading!Null
<1> DEFINE label == "check"
<1>l. LookFrame(t, label) /\ loaderPc'[t] = label
  BY DEF LoadShape, PlaceInv, Placed, LookFrame, Looks, Lookup
<1>0. /\ loaderPc' = [loaderPc EXCEPT ![t] = loaderPc'[t]] /\ loaderPc'[t] \in Lookup \cup {"check"}
      /\ UNCHANGED <<dlls, loaderFn, raced, got>>
  BY <1>l DEF LookFrame
<1>1. LoadShape'
  <2>1. ptr' \in [Loading!Functions ->
           {"-1", "NULL", "libcx0", "std", "libcn0", "libc066", "doscalls"}]
    BY DEF LoadShape, LibcxInv, Loading!DlOpen
  <2>2. libc' \in [{"spawn2.c", "spawni.c"} -> {"-1", "NULL", "libcn0", "libc066"}]
    BY DEF LoadShape, Loading!File, Loading!Tested, Loading!DlOpen
  <2>3. doscalls' \in {"-1", "doscalls"}
    BY DEF LoadShape
  <2> HIDE DEF label
  <2> QED
    BY <1>l, <2>1, <2>2, <2>3, ShapeStep
<1>2. PlaceInv'
  <2>1. Placed(label, loaderFn[t])
    BY DEF PlaceInv, Placed, ViaLibcx, Loading!Functions, LoadShape
  <2> HIDE DEF label
  <2> QED
    BY <1>l, <2>1, PlaceStep
<1>3. LibcxInv'
  BY <1>0 DEF LoadShape, PlaceInv, Placed, LibcxInv, Loading!DlOpen, LookFrame
<1>w. ASSUME "libcx0" \in dlls
      PROVE  ToLibcx /\ (loaderFn[t] \in ViaLibcx => WithAt(t)')
  <2>1. loaderFn[t] \notin ViaLibcx
    BY <1>w DEF WithLibcxInv, WithAt
  <2>2. \A f \in ViaLibcx : ptr'[f] = ptr[f]
    BY <2>1 DEF PlaceInv, Placed, LoadShape, ViaLibcx, Loading!Tested, Loading!Functions
  <2> QED
    BY <2>1, <2>2 DEF ToLibcx
<1>4. WithLibcxInv'
  BY <1>l, <1>w, WithStep
<1>5. NoSpawn2Inv'
  <2>1. ptr'["spawn2"] = ptr["spawn2"]
    BY DEF LoadShape, PlaceInv, Placed, Loading!Functions, Loading!Tested
  <2>2. loaderFn[t] # "spawn2"
    BY DEF PlaceInv, Placed
  <2> HIDE DEF label
  <2> QED
    BY <1>l, <2>1, <2>2, NoSpawn2Step
<1>6. OthersKept(t)
  BY DEF LoadShape, PlaceInv, Placed, OthersKept, Of, Handle, OfLibc, ViaLibcx, Loading!Functions, Loading!Tested, Loading!File
<1>7. ASSUME Serial(Of(t))
      PROVE  CalledAt(t)' /\ LookedUpAt(t)'
  <2>1. Of(t) = "DosWaitChild" /\ ptr'["DosWaitChild"] = "doscalls"
    BY DEF PlaceInv, Placed, Of, Loading!Tested, LoadShape, Loading!Functions
  <2>2. Resolved(Of(t))' /\ HandleOK(Of(t))'
    BY <1>0, <2>1, SameNames DEF Resolved, Final, HandleOK, OfLibc
  <2> QED
    BY <1>l, <1>7, <2>2, LookedAt
<1> QED
  BY <1>l, <1>1, <1>2, <1>3, <1>4, <1>5, <1>6, <1>7, LookStep

\* What a call is wanted to reach.
LEMMA FinalWanted ==
  ASSUME NEW f \in Loading!Functions, Serial(Loading!Tested(f))
  PROVE  /\ Final(Loading!Tested(f)) # Loading!Unknown(f)
         /\ Final(Loading!Tested(f)) = "NULL" => f # "wait" /\ Loading!Wanted(f) = "ENOSYS"
         /\ Final(Loading!Tested(f)) # "NULL" => Loading!Wanted(f) = Final(Loading!Tested(f))
<1> USE DEF Final, LibcDll, Serial, Loading!DlOpen, Loading!Unknown, Loading!Null, Loading!Unset, Loading!Tested, Loading!Wanted
<1>1. CASE f = "wait"
  BY <1>1
<1>2. CASE f = "DosWaitChild"
  BY <1>2
<1>3. CASE f = "__waitpid"
  BY <1>3
<1>4. CASE f \in {"posix_spawn", "posix_spawnp"}
  BY <1>4
<1>5. CASE f = "spawn2"
  BY <1>5 DEF Fallbacks
<1> QED
  BY <1>1, <1>2, <1>3, <1>4, <1>5 DEF Loading!Functions

LEMMA BeginStep ==
  ASSUME LoadInv, NEW t \in LoaderThreads, NEW f \in Loading!Functions, Loading!Begin(t, f)
  PROVE  LoadInv'
<1> USE DEF LoadInv
<1> DEFINE T == Loading!Tested(f)
<1>0. /\ loaderPc[t] = "out" /\ loaderFn' = [loaderFn EXCEPT ![t] = f]
      /\ got' = [got EXCEPT ![t] = "-1"]
      /\ loaderPc' = [loaderPc EXCEPT ![t] =
           IF ptr[T] # Loading!Unknown(f) THEN "check"
           ELSE IF T = "posix_spawn" THEN "libc" ELSE "libcx"]
      /\ UNCHANGED <<dlls, libcx, libc, doscalls, ptr>>
      /\ raced' = raced \cup {T : u \in {v \in LoaderThreads :
                 Loading!Tested(loaderFn[v]) = T /\ loaderPc[v] \notin {"out", "check", "call"}}}
  BY DEF Loading!Begin, Loading!Goto, Loading!Unset
<1>k. /\ loaderPc'[t] \in {"check", "libc", "libcx"} /\ loaderFn'[t] = f /\ got'[t] = "-1"
      /\ loaderPc'[t] = "check" <=> ptr[T] # Loading!Unknown(f)
      /\ loaderPc'[t] = "libc" => T = "posix_spawn"
      /\ loaderPc'[t] = "libcx" => T # "posix_spawn"
      /\ loaderPc' = [loaderPc EXCEPT ![t] = loaderPc'[t]]
  BY <1>0 DEF LoadShape
<1>u. ASSUME NEW u \in LoaderThreads, u # t
      PROVE  loaderPc'[u] = loaderPc[u] /\ loaderFn'[u] = loaderFn[u] /\ got'[u] = got[u]
             /\ Of(u)' = Of(u) /\ (Looks(u)' <=> Looks(u))
  BY <1>0, <1>u DEF LoadShape, Of, Looks
<1>T. /\ Of(t)' = T /\ T \in Loading!Functions /\ Loading!Unknown(f) = Loading!Unknown(T)
      /\ T = "posix_spawn" <=> f \in {"posix_spawn", "posix_spawnp"}
      /\ T # "posix_spawn" => f = T
  BY <1>k DEF Of, Loading!Tested, Loading!Functions, Loading!Unknown
<1>1. LoadShape'
  BY <1>0, <1>k, <1>T DEF LoadShape, Lookup
<1>2. PlaceInv'
  <2>1. Placed(loaderPc'[t], f)
    BY <1>k, <1>T DEF Placed, ViaLibcx, Loading!Functions
  <2>2. \A u \in LoaderThreads : u # t => Placed(loaderPc'[u], loaderFn'[u])
    BY <1>u DEF PlaceInv
  <2> QED
    BY <1>k, <2>1, <2>2 DEF PlaceInv
<1>3. LibcxInv'
  BY <1>0, <1>k DEF LoadShape, LibcxInv, Loading!DlOpen
<1>4. WithLibcxInv'
  <2> SUFFICES ASSUME "libcx0" \in dlls, NEW u \in LoaderThreads, loaderFn'[u] \in ViaLibcx
               PROVE  WithAt(u)'
    BY <1>0 DEF WithLibcxInv, Loading!Unknown, Loading!Null, Loading!Unset
  <2>1. CASE u = t
    <3>1. f \in ViaLibcx /\ T = f /\ T # "posix_spawn"
      BY <1>k, <1>T, <2>1 DEF ViaLibcx
    <3>2. loaderPc'[t] = "check" => ptr[f] = "libcx0"
      BY <1>k, <3>1 DEF WithLibcxInv
    <3> QED
      BY <1>0, <1>k, <2>1, <3>1, <3>2 DEF WithAt
  <2>2. CASE u # t
    <3>1. WithAt(u)
      BY <1>u, <2>2 DEF WithLibcxInv
    <3>2. loaderPc'[u] = loaderPc[u] /\ loaderFn'[u] = loaderFn[u] /\ got'[u] = got[u] /\ ptr' = ptr
      BY <1>0, <1>u, <2>2
    <3> QED
      BY <3>1, <3>2 DEF WithAt
  <2> QED
    BY <2>1, <2>2
<1>5. NoSpawn2Inv'
  <2> SUFFICES ASSUME "libcx0" \notin dlls, NEW u \in LoaderThreads, loaderFn'[u] = "spawn2"
               PROVE  /\ loaderPc'[u] # "call" /\ got'[u] \in {"-1", "ENOSYS"}
                      /\ loaderPc'[u] = "check" => ptr["spawn2"] = "NULL"
    BY <1>0 DEF NoSpawn2Inv
  <2>1. CASE u = t
    <3>1. f = "spawn2" /\ T = "spawn2" /\ Loading!Unknown(f) = "-1"
      BY <1>k, <2>1 DEF Loading!Tested, Loading!Unknown, Loading!Unset
    <3> QED
      BY <1>k, <2>1, <3>1 DEF NoSpawn2Inv
  <2>2. CASE u # t
    BY <1>u, <2>2 DEF NoSpawn2Inv
  <2> QED
    BY <2>1, <2>2
<1>6. /\ LibcDll' = LibcDll
      /\ \A g : Final(g)' = Final(g) /\ Resolved(g)' = Resolved(g) /\ HandleOK(g)' = HandleOK(g) /\ Handle(g)' = Handle(g)
      /\ \A g : Loading!Wanted(g)' = Loading!Wanted(g)
      /\ \A g : Serial(g)' => Serial(g)
  BY <1>0 DEF LibcDll, Final, Resolved, HandleOK, Handle, Loading!Wanted, Serial, Loading!DlOpen,
              Loading!File, Loading!Tested
<1>7. ASSUME Serial(T)'
      PROVE  /\ Serial(T) /\ Quiet(T) /\ HandleOK(T)
             /\ ptr[T] = Loading!Unknown(T) \/ Resolved(T)
             /\ Final(T) # Loading!Unknown(T)
  <2>1. Serial(T) /\ T \in Fallbacks
    BY <1>6, <1>7 DEF Serial
  <2>2. Quiet(T)
    <3> SUFFICES ASSUME NEW v \in LoaderThreads, Looks(v), Of(v) = T
                 PROVE  FALSE
      BY DEF Quiet
    <3>1. loaderPc[v] \notin {"out", "check", "call"}
      BY DEF Looks, Lookup
    <3>2. T \in raced'
      BY <1>0, <3>1 DEF Of
    <3> QED
      BY <1>7, <3>2 DEF Serial
  <2> QED
    BY <1>T, <2>1, <2>2, FinalWanted DEF QuietInv
<1>8. OneLooksInv'
  <2> SUFFICES ASSUME NEW x \in LoaderThreads, NEW y \in LoaderThreads,
                      x # y, Of(x)' = Of(y)', Serial(Of(x))', Looks(x)'
               PROVE  loaderPc'[y] = "out"
    BY DEF OneLooksInv
  <2>1. CASE x # t /\ y # t
    BY <1>6, <1>u, <2>1 DEF OneLooksInv
  <2>2. CASE x = t
    <3>1. Serial(T)' /\ y # t /\ Of(y) = T /\ loaderPc'[y] = loaderPc[y]
      BY <1>T, <1>u, <2>2
    <3>2. loaderPc'[t] # "check"
      BY <2>2 DEF Looks, Lookup
    <3>3. ptr[T] = Loading!Unknown(T)
      BY <1>k, <1>T, <3>2
    <3>4. ~Resolved(T)
      BY <1>7, <3>1, <3>3 DEF Resolved
    <3>5. ~Looks(y) /\ loaderPc[y] \notin {"check", "call"}
      BY <1>7, <3>1, <3>4 DEF Quiet, CalledInv, CalledAt
    <3> QED
      BY <3>1, <3>5 DEF LoadShape, Looks
  <2>3. CASE y = t
    <3>1. Serial(T)' /\ x # t /\ Of(x) = T /\ Looks(x)
      BY <1>T, <1>u, <2>3
    <3> QED
      BY <1>7, <3>1 DEF Quiet
  <2> QED
    BY <2>1, <2>2, <2>3
<1>9. ASSUME NEW u \in LoaderThreads, Serial(Of(u))'
      PROVE  CalledAt(u)' /\ LookedUpAt(u)'
  <2>1. CASE u # t
    <3>1. CalledAt(u) /\ LookedUpAt(u)
      BY <1>6, <1>9, <1>u, <2>1 DEF CalledInv, LookedUpInv
    <3> QED
      BY <1>0, <1>6, <1>u, <2>1, <3>1 DEF CalledAt, LookedUpAt
  <2>2. CASE u = t
    <3>1. Serial(T)'
      BY <1>9, <1>T, <2>2
    <3>2. loaderPc'[t] = "check" => Resolved(T)
      BY <1>7, <1>k, <1>T, <3>1
    <3>3. CalledAt(t)'
      BY <1>6, <1>7, <1>k, <1>T, <3>1, <3>2 DEF CalledAt
    <3>4. LookedUpAt(t)'
      BY <1>6, <1>7, <1>k, <1>T, <3>1 DEF LookedUpAt
    <3> QED
      BY <2>2, <3>3, <3>4
  <2> QED
    BY <2>1, <2>2
<1>10. CalledInv' /\ LookedUpInv'
  BY <1>9 DEF CalledInv, LookedUpInv
<1>11. QuietInv'
  <2> SUFFICES ASSUME NEW g \in Fallbacks, Serial(g)', Quiet(g)'
               PROVE  (ptr[g] = Loading!Unknown(g) \/ Resolved(g)) /\ HandleOK(g)
    BY <1>0, <1>6 DEF QuietInv, Loading!Unknown, Loading!Null, Loading!Unset
  <2>1. Quiet(g)
    <3> SUFFICES ASSUME NEW v \in LoaderThreads, Looks(v), Of(v) = g
                 PROVE  FALSE
      BY DEF Quiet
    <3>1. v # t
      BY <1>0 DEF Looks, Lookup
    <3>2. Looks(v)' /\ Of(v)' = g
      BY <1>u, <3>1 DEF Looks
    <3> QED
      BY <3>2 DEF Quiet
  <2> QED
    BY <1>6, <2>1 DEF QuietInv
<1> QED
  BY <1>1, <1>2, <1>3, <1>4, <1>5, <1>8, <1>10, <1>11

\* The end of a call: the pointers are as they are.
LEMMA EndStep ==
  ASSUME LoadInv, NEW t \in LoaderThreads, Loading!CheckPtr(t) \/ Loading!CallPtr(t)
  PROVE  LoadInv'
<1> USE DEF LoadInv
<1> DEFINE f == loaderFn[t]
<1>0. /\ loaderPc[t] \in {"check", "call"} /\ UNCHANGED <<dlls, libcx, libc, doscalls, ptr, loaderFn, raced>>
      /\ loaderPc' = [loaderPc EXCEPT ![t] = loaderPc'[t]] /\ got' = [got EXCEPT ![t] = got'[t]]
      /\ loaderPc'[t] \in {"out", "call"}
  BY DEF Loading!CheckPtr, Loading!CallPtr, Loading!Return, Loading!Goto, LoadShape
<1>t. \/ /\ loaderPc[t] = "check" /\ loaderPc'[t] = "out" /\ got'[t] = "ENOSYS"
         /\ \/ f # "wait" /\ ptr[f] = "NULL"
            \/ Of(t) = "posix_spawn" /\ "NULL" \in {ptr["posix_spawn"], ptr["posix_spawnp"]}
      \/ /\ loaderPc[t] = "check" /\ loaderPc'[t] = "call" /\ got'[t] = got[t]
         /\ ~(f # "wait" /\ ptr[f] = "NULL")
         /\ ~(Of(t) = "posix_spawn" /\ "NULL" \in {ptr["posix_spawn"], ptr["posix_spawnp"]})
      \/ loaderPc[t] = "call" /\ loaderPc'[t] = "out" /\ got'[t] = ptr[f]
  BY DEF Loading!CheckPtr, Loading!CallPtr, Loading!Return, Loading!Goto, LoadShape, Of, Loading!Null
<1>u. ASSUME NEW u \in LoaderThreads
      PROVE  /\ Of(u)' = Of(u)
             /\ u # t => loaderPc'[u] = loaderPc[u] /\ got'[u] = got[u]
             /\ Looks(u)' <=> Looks(u)
  BY <1>0 DEF LoadShape, Of, Looks, Lookup
<1>f. f \in Loading!Functions /\ Of(t) = Loading!Tested(f)
  BY DEF LoadShape, Of
<1>g. got'[t] \in {"-1", "NULL", "libcx0", "std", "libcn0", "libc066", "doscalls", "ENOSYS"}
  BY <1>t, <1>f DEF LoadShape
<1>1. LoadShape'
  <2>1. got' \in [LoaderThreads ->
           {"-1", "NULL", "libcx0", "std", "libcn0", "libc066", "doscalls", "ENOSYS"}]
    BY <1>0, <1>g DEF LoadShape
  <2>2. loaderPc' \in [LoaderThreads -> Lookup \cup {"out", "check", "call"}]
    BY <1>0 DEF LoadShape
  <2> QED
    BY <1>0, <2>1, <2>2 DEF LoadShape
<1>2. PlaceInv' /\ LibcxInv'
  BY <1>0 DEF LoadShape, PlaceInv, Placed, LibcxInv, Loading!DlOpen
<1>4. WithLibcxInv'
  <2> SUFFICES ASSUME "libcx0" \in dlls, NEW u \in LoaderThreads, loaderFn[u] \in ViaLibcx
               PROVE  WithAt(u)'
    BY <1>0 DEF WithLibcxInv, Loading!Unknown, Loading!Null, Loading!Unset
  <2>1. WithAt(u)
    BY DEF WithLibcxInv
  <2>2. CASE u # t
    BY <1>0, <1>u, <2>1, <2>2 DEF WithAt
  <2>3. CASE u = t
    <3>1. ptr[f] = "libcx0" /\ got[t] \in {"-1", "libcx0"} /\ Of(t) # "posix_spawn"
      BY <1>0, <1>f, <2>1, <2>3 DEF WithAt, ViaLibcx, Loading!Tested
    <3> QED
      BY <1>0, <1>t, <2>3, <3>1 DEF WithAt
  <2> QED
    BY <2>2, <2>3
<1>5. NoSpawn2Inv'
  <2> SUFFICES ASSUME "libcx0" \notin dlls, NEW u \in LoaderThreads, loaderFn[u] = "spawn2"
               PROVE  /\ loaderPc'[u] # "call" /\ got'[u] \in {"-1", "ENOSYS"}
                      /\ loaderPc'[u] = "check" => ptr["spawn2"] = "NULL"
    BY <1>0 DEF NoSpawn2Inv
  <2> QED
    BY <1>0, <1>t, <1>u DEF NoSpawn2Inv
<1>6. /\ LibcDll' = LibcDll
      /\ \A g : Final(g)' = Final(g) /\ Resolved(g)' = Resolved(g) /\ HandleOK(g)' = HandleOK(g) /\ Handle(g)' = Handle(g)
      /\ \A g : Loading!Wanted(g)' = Loading!Wanted(g)
      /\ \A g : Serial(g)' = Serial(g)
  BY <1>0 DEF LibcDll, Final, Resolved, HandleOK, Handle, Loading!Wanted, Serial, Loading!DlOpen,
              Loading!File, Loading!Tested
<1>7. OneLooksInv'
  <2> SUFFICES ASSUME NEW x \in LoaderThreads, NEW y \in LoaderThreads,
                      x # y, Of(x) = Of(y), Serial(Of(x)), Looks(x)
               PROVE  loaderPc'[y] = "out"
    BY <1>u, <1>6 DEF OneLooksInv
  <2>1. loaderPc[y] = "out"
    BY DEF OneLooksInv
  <2> QED
    BY <1>0, <1>u, <2>1
<1>8. ASSUME NEW u \in LoaderThreads, Serial(Of(u))
      PROVE  CalledAt(u)' /\ LookedUpAt(u)'
  <2>1. CalledAt(u) /\ LookedUpAt(u)
    BY <1>8 DEF CalledInv, LookedUpInv
  <2>2. CASE u # t
    BY <1>0, <1>6, <1>u, <2>1, <2>2 DEF CalledAt, LookedUpAt
  <2>3. CASE u = t
    <3>1. Resolved(Of(t)) /\ HandleOK(Of(t)) /\ got[t] \in {"-1", Loading!Wanted(f)}
          /\ (loaderPc[t] = "call" => Final(Of(t)) # "NULL")
      BY <1>0, <2>1, <2>3 DEF CalledAt
    <3>2. ptr[Of(t)] = Final(Of(t)) /\ ptr[f] = Final(Of(t))
          /\ (Of(t) = "posix_spawn" => ptr["posix_spawnp"] = Final(Of(t)))
      BY <1>f, <3>1 DEF Resolved, Final, Loading!Tested
    <3>3. /\ Final(Of(t)) = "NULL" => f # "wait" /\ Loading!Wanted(f) = "ENOSYS"
          /\ Final(Of(t)) # "NULL" => Loading!Wanted(f) = Final(Of(t))
      BY <1>8, <1>f, <2>3, FinalWanted
    <3>4. CalledAt(t)'
      BY <1>0, <1>6, <1>t, <1>u, <3>1, <3>2, <3>3 DEF CalledAt
    <3>5. LookedUpAt(t)'
      BY <1>0 DEF LookedUpAt
    <3> QED
      BY <2>3, <3>4, <3>5
  <2> QED
    BY <2>2, <2>3
<1>9. CalledInv' /\ LookedUpInv'
  BY <1>u, <1>6, <1>8 DEF CalledInv, LookedUpInv
<1>10. QuietInv'
  <2> SUFFICES ASSUME NEW g \in Fallbacks, Serial(g), Quiet(g)'
               PROVE  (ptr[g] = Loading!Unknown(g) \/ Resolved(g)) /\ HandleOK(g)
    BY <1>0, <1>6 DEF QuietInv, Loading!Unknown, Loading!Null, Loading!Unset
  <2>1. Quiet(g)
    BY <1>u DEF Quiet
  <2> QED
    BY <2>1 DEF QuietInv
<1> QED
  BY <1>1, <1>2, <1>4, <1>5, <1>7, <1>9, <1>10

LEMMA LoadStep ==
  ASSUME LoadInv, [Loading!Next]_loaderVars
  PROVE  LoadInv'
<1>1. CASE UNCHANGED loaderVars
  <2> USE <1>1 DEF loaderVars
  <2>1. LoadShape' /\ PlaceInv' /\ LibcxInv'
    BY DEF LoadInv, LoadShape, PlaceInv, Placed, LibcxInv, Loading!DlOpen
  <2>2. WithLibcxInv' /\ NoSpawn2Inv'
    BY DEF LoadInv, WithLibcxInv, WithAt, NoSpawn2Inv, Loading!Unknown, Loading!Null, Loading!Unset
  <2>3. /\ \A g : Final(g)' = Final(g) /\ Resolved(g)' = Resolved(g) /\ HandleOK(g)' = HandleOK(g) /\ Handle(g)' = Handle(g)
        /\ \A g : Loading!Wanted(g)' = Loading!Wanted(g)
        /\ \A g : Serial(g)' = Serial(g)
        /\ \A u : Of(u)' = Of(u) /\ Looks(u)' = Looks(u) /\ LibcDll' = LibcDll
    BY DEF LibcDll, Final, Resolved, HandleOK, Handle, Loading!Wanted, Serial, Loading!DlOpen,
                Loading!File, Loading!Tested, Of, Looks
  <2>4. OneLooksInv'
    BY <2>3 DEF LoadInv, OneLooksInv
  <2>5. \A u : CalledAt(u)' = CalledAt(u) /\ LookedUpAt(u)' = LookedUpAt(u)
    BY <2>3 DEF CalledAt, LookedUpAt
  <2>6. CalledInv' /\ LookedUpInv'
    BY <2>3, <2>5 DEF LoadInv, CalledInv, LookedUpInv
  <2>7. QuietInv'
    BY <2>3 DEF LoadInv, QuietInv, Quiet, Loading!Unknown, Loading!Null, Loading!Unset
  <2> QED
    BY <2>1, <2>2, <2>4, <2>6, <2>7 DEF LoadInv
<1>2. CASE Loading!Next
  BY <1>2, BeginStep, LoadLibcxStep, SymLibcxStep, FallbackStep, StdStep, LoadLibcStep, LoadLibc066Step,
     SymLibcStep, SymSecondStep, SymDoscallsStep, EndStep DEF Loading!Next
<1> QED
  BY <1>1, <1>2

LEMMA LoadInvCalls ==
  ASSUME LoadInv
  PROVE  CallsLoaded
<1> SUFFICES ASSUME NEW t \in LoaderThreads, got[t] # "-1", got[t] # Loading!Wanted(loaderFn[t])
             PROVE  /\ Of(t) \in raced /\ loaderFn[t] # "spawn2"
                    /\ "libcx0" \notin dlls \/ Of(t) = "posix_spawn"
  BY DEF CallsLoaded, Loading!CallsLoaded, Loading!Unset, Of
<1> USE DEF LoadInv
<1>1. loaderFn[t] \in Loading!Functions
  BY DEF LoadShape
<1>2. ~Serial(Of(t))
  BY DEF CalledInv, CalledAt
<1>3. loaderFn[t] \in ViaLibcx => "libcx0" \notin dlls
  BY DEF WithLibcxInv, WithAt, Loading!Wanted, ViaLibcx
<1>4. loaderFn[t] # "spawn2"
  BY <1>3 DEF NoSpawn2Inv, Loading!Wanted, ViaLibcx
<1> QED
  BY <1>1, <1>2, <1>3, <1>4 DEF Serial, Fallbacks, Of, ViaLibcx, Loading!Functions, Loading!Tested

LEMMA LibLoadInv == LibSpec => []LoadInv
<1>1. LibInit => LoadInv
  BY LoadInitInv DEF LibInit
<1>2. LoadInv /\ [LibNext]_libVars => LoadInv'
  <2> SUFFICES ASSUME LoadInv, [LibNext]_libVars
               PROVE  LoadInv'
    OBVIOUS
  <2>1. [Loading!Next]_loaderVars
    BY DEF LibNext, libVars
  <2> QED
    BY <2>1, LoadStep
<1> QED
  BY <1>1, <1>2, PTL DEF LibSpec

\* A call reaches the function of the DLL that should serve it, unless first calls of it
\* overlapped.
THEOREM LibCallsLoaded == LibSpec => []CallsLoaded
<1>1. LoadInv => CallsLoaded
  BY LoadInvCalls
<1> QED
  BY <1>1, LibLoadInv, PTL

-----------------------------------------------------------------------------
(***************************************************************************)
(* Allocated lists.                                                        *)
(***************************************************************************)
FieldNames == {"node", "name", "addr", "canonname", "netmask", "broadaddr", "dirent"}

\* What the entries of a list are made of, which is what its free function knows.
FieldsOf(f) ==
  CASE f = "getaddrinfo" -> {"node", "addr", "canonname"}
    [] f = "getifaddrs" -> {"node", "name", "addr", "netmask", "broadaddr"}
    [] f = "if_nameindex" -> {"name"}
    [] f = "scandir" -> {"dirent"}
    [] f = "none" -> {}

Builders == {"getaddrinfo", "getifaddrs", "if_nameindex"}

ListShape ==
  /\ listOpen \in BOOLEAN /\ listFn \in Builders \cup {"scandir", "none"}
  /\ listPc \in {"out", "refuse", "calloc", "next", "field", "grow", "malloc", "end"}
  /\ todo \in Seq({"other", "link", "inet", "named", "plain"}) /\ fields \in Seq(FieldNames)
  /\ list \in Seq(SUBSET FieldNames) /\ new \subseteq FieldNames
  /\ room \in Nat /\ wanted \in Nat
  /\ failed \in {"none", "refused", "EAI_SYSTEM", "ENOMEM", "calloc", "strdup", "realloc", "EBADF"}
  /\ listOpen => listPc # "out"

\* Which functions pass which places.
ListPlaceInv ==
  /\ listPc # "out" => listFn # "none"
  /\ listPc = "calloc" => listFn = "if_nameindex" /\ list = <<>>
  /\ listPc = "refuse" => list = <<>>
  /\ listPc = "field" => listFn \in Builders
  /\ listPc \in {"grow", "malloc", "end"} => listFn = "scandir"
  /\ listPc \in {"field", "grow", "malloc"} => todo # <<>> /\ Head(todo) # "other"
  /\ listPc \notin {"out", "end"} => failed = "none"
  /\ listFn = "none" => failed = "none" /\ list = <<>>

\* Entries have the fields of their function, and a first one.
EntryInv ==
  /\ \A k \in DOMAIN list : list[k] # {} /\ list[k] \subseteq FieldsOf(listFn)
  /\ new \subseteq FieldsOf(listFn) /\ \A i \in DOMAIN fields : fields[i] \in FieldsOf(listFn)
  /\ listPc = "field" /\ new = {} => fields # <<>> /\ Head(fields) \in {"node", "name"}
  /\ listPc # "field" /\ (listPc # "out" \/ failed = "none") => new = {} /\ fields = <<>>

\* The heap has the entries, the fields of the new one, and the array if there is one.
HeapInv ==
  listPc # "out" \/ failed = "none" =>
    heap = Listing!BlocksOf(list) \cup Listing!Of(Len(list) + 1, new)
             \cup (IF room > 0 THEN {Listing!Array} ELSE {})

\* Each item that belongs into the list is in it or still to come.
CountInv ==
  /\ Len(list) + Len(todo) <= 2 * MaxItems
  /\ listFn = "getaddrinfo" => Len(list) + Len(todo) <= 2
  /\ listPc \notin {"out", "end"} => Len(list) + Listing!Wanted(todo) = wanted
  /\ listPc \in {"out", "end"} /\ failed = "none" => Len(list) = wanted

\* There is room for what is to come.
RoomInv ==
  /\ listFn \in {"none", "getaddrinfo", "getifaddrs"} => room = 0
  /\ listPc \in {"refuse", "calloc"} => room = 0
  /\ listFn = "if_nameindex" /\ listPc \in {"next", "field"} => Len(list) + Len(todo) + 1 <= room
  /\ listFn = "if_nameindex" /\ room > 0 => Len(list) + 1 <= room
  /\ listFn = "if_nameindex" /\ listPc = "out" /\ failed = "none" => room > 0
  /\ listFn = "scandir" => Len(list) <= room
  /\ listPc = "malloc" => Len(list) < room

\* What a call that failed leaves behind.
LeftInv ==
  listPc = "out" /\ failed # "none" =>
    \/ heap = {}
    \/ listFn = "getaddrinfo" /\ Len(list) = 1 /\ heap = Listing!BlocksOf(list)
    \/ /\ listFn = "if_nameindex" /\ failed = "realloc" /\ room > 0
       /\ heap = Listing!BlocksOf(list) \cup {Listing!Array}

ListInv ==
  ListShape /\ ListPlaceInv /\ EntryInv /\ HeapInv /\ CountInv /\ RoomInv /\ LeftInv

-----------------------------------------------------------------------------
\* The fields that the free functions know, one by one.
LEMMA FieldsAre ==
  /\ FieldsOf("getaddrinfo") = {"node", "addr", "canonname"}
  /\ FieldsOf("getifaddrs") = {"node", "name", "addr", "netmask", "broadaddr"}
  /\ FieldsOf("if_nameindex") = {"name"}
  /\ FieldsOf("scandir") = {"dirent"}
  /\ FieldsOf("none") = {}
BY DEF FieldsOf

\* Blocks of an empty list, and of one more entry.
LEMMA BlocksEmpty ==
  /\ Listing!BlocksOf(<<>>) = {}
  /\ \A k : Listing!Of(k, {}) = {}
  /\ \A k, fs, gs : Listing!Of(k, fs \cup gs) = Listing!Of(k, fs) \cup Listing!Of(k, gs)
BY DEF Listing!BlocksOf, Listing!Of

LEMMA BlocksAppend ==
  ASSUME NEW S, NEW es \in Seq(S), NEW fs
  PROVE  Listing!BlocksOf(Append(es, fs)) = Listing!BlocksOf(es) \cup Listing!Of(Len(es) + 1, fs)
<1> DEFINE app == Append(es, fs)
<1>1. /\ DOMAIN app = 1..(Len(es) + 1) /\ DOMAIN es = 1..Len(es) /\ Len(es) \in Nat
      /\ app[Len(es) + 1] = fs /\ \A k \in 1..Len(es) : app[k] = es[k]
  BY AppendProperties
<1>2. DOMAIN app = DOMAIN es \cup {Len(es) + 1}
  BY <1>1
<1> HIDE DEF app
<1> QED
  BY <1>1, <1>2 DEF Listing!BlocksOf, app

\* The array and the entry being made are not blocks of the list.
LEMMA BlocksApart ==
  ASSUME NEW S, NEW es \in Seq(S), NEW fs
  PROVE  /\ Listing!Of(Len(es) + 1, fs) \cap Listing!BlocksOf(es) = {}
         /\ Listing!Array \notin Listing!Of(Len(es) + 1, fs)
         /\ Listing!Array \notin Listing!BlocksOf(es)
<1>1. DOMAIN es = 1..Len(es) /\ Len(es) \in Nat
  OBVIOUS
<1> QED
  BY <1>1 DEF Listing!BlocksOf, Listing!Of, Listing!Array

\* Entries that have no more than these fields are freed whole.
LEMMA FreedWhole ==
  ASSUME NEW S, NEW es \in Seq(S), NEW F, \A k \in DOMAIN es : es[k] \subseteq F
  PROVE  Listing!BlocksOf([k \in DOMAIN es |-> es[k] \cap F]) = Listing!BlocksOf(es)
<1> DEFINE cut == [k \in DOMAIN es |-> es[k] \cap F]
<1>1. DOMAIN cut = DOMAIN es /\ \A k \in DOMAIN es : cut[k] = es[k]
  OBVIOUS
<1> HIDE DEF cut
<1>2. Listing!BlocksOf(cut) = Listing!BlocksOf(es)
  BY <1>1 DEF Listing!BlocksOf
<1> QED
  BY <1>2 DEF cut

LEMMA SameListingCardinality == \A S : Listing!Cardinality(S) = Cardinality(S)
BY DEF Listing!Cardinality, Cardinality

\* Items that belong into a list are counted from its end.
LEMMA WantedTail ==
  ASSUME NEW S, NEW s \in Seq(S)
  PROVE  /\ Listing!Wanted(s) \in Nat
         /\ s = <<>> => Listing!Wanted(s) = 0
         /\ s # <<>> /\ Head(s) = "other" => Listing!Wanted(s) = Listing!Wanted(Tail(s))
         /\ s # <<>> /\ Head(s) # "other" => Listing!Wanted(s) = Listing!Wanted(Tail(s)) + 1
<1> DEFINE In(t) == {i \in DOMAIN t : t[i] # "other"}
<1>1. \A t : Listing!Wanted(t) = Cardinality(In(t))
  BY SameListingCardinality DEF Listing!Wanted
<1>2. \A t \in Seq(S) : IsFiniteSet(In(t)) /\ Cardinality(In(t)) \in Nat
  <2> SUFFICES ASSUME NEW t \in Seq(S)
               PROVE  IsFiniteSet(In(t)) /\ Cardinality(In(t)) \in Nat
    OBVIOUS
  <2>1. In(t) \subseteq 1..Len(t) /\ Len(t) \in Nat
    OBVIOUS
  <2> HIDE DEF In
  <2>2. IsFiniteSet(1..Len(t))
    BY <2>1, FS_Interval
  <2>3. IsFiniteSet(In(t))
    BY <2>1, <2>2, FS_Subset
  <2> QED
    BY <2>3, FS_CardinalityType
<1>3. s = <<>> => In(s) = {}
  OBVIOUS
<1>4. ASSUME s # <<>>
      PROVE  Cardinality(In(s)) =
               Cardinality(In(Tail(s))) + (IF Head(s) # "other" THEN 1 ELSE 0)
  <2>1. /\ Tail(s) \in Seq(S) /\ DOMAIN Tail(s) = 1..(Len(s) - 1) /\ Len(s) \in Nat /\ Len(s) > 0
        /\ DOMAIN s = 1..Len(s) /\ Head(s) = s[1]
        /\ \A i \in 1..(Len(s) - 1) : Tail(s)[i] = s[i + 1]
    BY <1>4
  <2> DEFINE rest == In(s) \ {1}   shift == [i \in In(Tail(s)) |-> i + 1]
  <2>2. shift \in Bijection(In(Tail(s)), rest)
    <3>1. \A i \in In(Tail(s)) : i \in Nat /\ i + 1 \in rest
      BY <2>1
    <3>2. shift \in [In(Tail(s)) -> rest]
      BY <3>1
    <3>3. \A i, j \in In(Tail(s)) : shift[i] = shift[j] => i = j
      BY <3>1
    <3>4. \A k \in rest : \E i \in In(Tail(s)) : shift[i] = k
      <4> SUFFICES ASSUME NEW k \in rest PROVE \E i \in In(Tail(s)) : shift[i] = k
        OBVIOUS
      <4>1. k \in 2..Len(s) /\ s[k] # "other"
        BY <2>1
      <4>2. k - 1 \in DOMAIN Tail(s) /\ Tail(s)[k - 1] = s[k]
        BY <4>1, <2>1
      <4>3. k - 1 \in In(Tail(s)) /\ shift[k - 1] = k
        BY <4>1, <4>2
      <4> QED
        BY <4>3
    <3> HIDE DEF shift, rest, In
    <3> QED
      BY <3>2, <3>3, <3>4 DEF Bijection, Injection, Surjection, IsInjective
  <2>3. Cardinality(rest) = Cardinality(In(Tail(s)))
    <3> HIDE DEF shift, rest, In
    <3> QED
      BY <2>1, <2>2, <1>2, FS_Bijection DEF ExistsBijection
  <2>4. 1 \in In(s) <=> Head(s) # "other"
    BY <2>1
  <2>5. Cardinality(In(s)) = Cardinality(rest) + (IF 1 \in In(s) THEN 1 ELSE 0)
    <3> HIDE DEF In
    <3>1. IsFiniteSet(In(s)) /\ Cardinality(In(s)) \in Nat
      BY <1>2
    <3>2. Cardinality(rest) = IF 1 \in In(s) THEN Cardinality(In(s)) - 1 ELSE Cardinality(In(s))
      BY <3>1, FS_RemoveElement
    <3> QED
      BY <3>1, <3>2
  <2> HIDE DEF In, rest
  <2> QED
    BY <2>3, <2>4, <2>5
<1>5. s # <<>> => Tail(s) \in Seq(S)
  OBVIOUS
<1>6. Cardinality({}) = 0
  BY FS_EmptySet
<1> HIDE DEF In
<1>7. Listing!Wanted(s) = Cardinality(In(s)) /\ Listing!Wanted(Tail(s)) = Cardinality(In(Tail(s)))
  BY <1>1
<1>8. Cardinality(In(s)) \in Nat
  BY <1>2
<1>9. CASE s = <<>>
  BY <1>3, <1>6, <1>7, <1>8, <1>9
<1>10. CASE s # <<>>
  <2>1. Cardinality(In(Tail(s))) \in Nat
    BY <1>2, <1>5, <1>10
  <2> QED
    BY <2>1, <1>4, <1>7, <1>8, <1>10
<1> QED
  BY <1>9, <1>10

-----------------------------------------------------------------------------
\* What FieldsOf() names are fields.
LEMMA FieldsNamed ==
  ASSUME NEW f \in Builders \cup {"scandir", "none"}
  PROVE  FieldsOf(f) \subseteq FieldNames
<1>1. CASE f = "getaddrinfo"
  BY <1>1, FieldsAre DEF FieldNames
<1>2. CASE f = "getifaddrs"
  BY <1>2, FieldsAre DEF FieldNames
<1>3. CASE f = "if_nameindex"
  BY <1>3, FieldsAre DEF FieldNames
<1>4. CASE f = "scandir"
  BY <1>4, FieldsAre DEF FieldNames
<1>5. CASE f = "none"
  BY <1>5, FieldsAre
<1> QED
  BY <1>1, <1>2, <1>3, <1>4, <1>5 DEF Builders

LEMMA ListInitInv ==
  ASSUME Listing!Init
  PROVE  ListInv
<1> USE DEF Listing!Init
<1>4. /\ todo \in Seq({"other", "link", "inet", "named", "plain"}) /\ fields \in Seq(FieldNames)
      /\ list \in Seq(SUBSET FieldNames)
  OBVIOUS
<1>1. ListShape /\ ListPlaceInv
  BY <1>4 DEF ListShape, ListPlaceInv, Builders
<1>2. EntryInv /\ HeapInv
  BY BlocksEmpty DEF EntryInv, HeapInv
<1>3. CountInv /\ RoomInv /\ LeftInv
  BY LibraryAssumption DEF CountInv, RoomInv, LeftInv
<1> QED
  BY <1>1, <1>2, <1>3 DEF ListInv

\* A call begins.
LEMMA ListBeginStep ==
  ASSUME ListInv, NEW f \in Builders \cup {"scandir"}, NEW items, NEW label, NEW opens \in BOOLEAN,
         Listing!Begin(f, items, label, opens),
         items \in Seq({"other", "link", "inet", "named", "plain"}),
         Len(items) <= 2 * MaxItems,
         f = "getaddrinfo" => Len(items) <= 2,
         f = "if_nameindex" => label \in {"calloc", "refuse"},
         f # "if_nameindex" => label \in {"next", "refuse"}
  PROVE  ListInv'
<1>1. /\ listPc = "out" /\ heap = {} /\ heap' = {}
      /\ listFn' = f /\ todo' = items /\ fields' = <<>> /\ new' = {} /\ list' = <<>>
      /\ room' = 0 /\ failed' = "none" /\ wanted' = Listing!Wanted(items)
      /\ listOpen' = opens /\ listPc' = label
  BY DEF Listing!Begin
<1>2. Listing!Wanted(items) \in Nat /\ Len(items) \in Nat
  BY WantedTail
<1>3. label \in {"calloc", "refuse", "next"} /\ f \in {"getaddrinfo", "getifaddrs", "if_nameindex", "scandir"}
  BY DEF Builders
<1>4. ListShape'
  BY <1>1, <1>2, <1>3 DEF ListShape
<1>5. ListPlaceInv' /\ RoomInv' /\ LeftInv'
  BY <1>1, <1>2, <1>3 DEF ListPlaceInv, RoomInv, LeftInv
<1>6. EntryInv' /\ HeapInv'
  BY <1>1, <1>3, BlocksEmpty DEF EntryInv, HeapInv
<1>7. CountInv'
  BY <1>1, <1>2, <1>3 DEF CountInv
<1> QED
  BY <1>4, <1>5, <1>6, <1>7 DEF ListInv

\* The items of a getifaddrs() call: two for each interface.
LEMMA ListItems ==
  ASSUME NEW items \in Listing!Interfaces
  PROVE  /\ items \in Seq({"other", "link", "inet", "named", "plain"})
         /\ Len(items) <= 2 * MaxItems
         /\ Listing!InterfaceEntries(items) \in Seq({"other", "link", "inet", "named", "plain"})
         /\ Len(Listing!InterfaceEntries(items)) <= 2 * MaxItems
<1>1. PICK n \in 0..MaxItems : items \in [1..n -> {"link", "other"}]
  BY DEF Listing!Interfaces
<1>2. n \in Nat /\ items \in Seq({"link", "other"}) /\ Len(items) = n
  BY <1>1, LibraryAssumption
<1>3. items \in Seq({"other", "link", "inet", "named", "plain"}) /\ Len(items) <= 2 * MaxItems
  BY <1>1, <1>2, LibraryAssumption
<1>4. Listing!InterfaceEntries(items) \in [1..2 * n -> {"other", "link", "inet", "named", "plain"}]
  BY <1>2 DEF Listing!InterfaceEntries
<1>5. 2 * n \in Nat /\ 2 * n <= 2 * MaxItems
  BY <1>1, LibraryAssumption
<1>6. Len(Listing!InterfaceEntries(items)) = 2 * n
      /\ Listing!InterfaceEntries(items) \in Seq({"other", "link", "inet", "named", "plain"})
  BY <1>4, <1>5
<1> QED
  BY <1>3, <1>5, <1>6

LEMMA ListCallStep ==
  ASSUME ListInv, Listing!Getaddrinfo \/ Listing!Getifaddrs \/ Listing!IfNameindex \/ Listing!Scandir
  PROVE  ListInv'
<1>1. CASE Listing!Getaddrinfo
  <2>1. PICK protocols \in {<<"udp">>, <<"tcp">>, <<"udp", "tcp">>},
             canonname \in BOOLEAN, hintsOK \in BOOLEAN, nodeOK \in BOOLEAN, serviceOK \in BOOLEAN :
             Listing!Begin("getaddrinfo",
               [i \in DOMAIN protocols |-> IF canonname THEN "named" ELSE "plain"],
               IF hintsOK /\ nodeOK /\ serviceOK THEN "next" ELSE "refuse", FALSE)
    BY <1>1 DEF Listing!Getaddrinfo
  <2> DEFINE items == [i \in DOMAIN protocols |-> IF canonname THEN "named" ELSE "plain"]
             label == IF hintsOK /\ nodeOK /\ serviceOK THEN "next" ELSE "refuse"
  <2>2. DOMAIN protocols = 1..Len(protocols) /\ Len(protocols) \in 1..2
    OBVIOUS
  <2>3. items \in [1..Len(protocols) -> {"other", "link", "inet", "named", "plain"}]
    BY <2>2
  <2>4. items \in Seq({"other", "link", "inet", "named", "plain"}) /\ Len(items) = Len(protocols)
    BY <2>2, <2>3
  <2>5. Len(items) <= 2 * MaxItems /\ Len(items) <= 2
    <3>1. MaxItems \in Nat /\ 2 <= 2 * MaxItems
      BY LibraryAssumption
    <3> DEFINE k == Len(items)
    <3>2. k \in 1..2
      BY <2>2, <2>4
    <3> HIDE DEF k
    <3>3. k <= 2 * MaxItems /\ k <= 2
      BY <3>1, <3>2
    <3> QED
      BY <3>3 DEF k
  <2>6. label \in {"next", "refuse"}
    OBVIOUS
  <2> HIDE DEF items, label
  <2>7. Listing!Begin("getaddrinfo", items, label, FALSE)
    BY <2>1 DEF items, label
  <2> QED
    BY <2>4, <2>5, <2>6, <2>7, ListBeginStep DEF Builders
<1>2. CASE Listing!Getifaddrs
  <2>1. PICK items \in Listing!Interfaces, label \in {"next", "refuse"}, opens \in BOOLEAN :
             Listing!Begin("getifaddrs", Listing!InterfaceEntries(items), label, opens)
    BY <1>2 DEF Listing!Getifaddrs
  <2> QED
    BY <2>1, ListItems, ListBeginStep DEF Builders
<1>3. CASE Listing!IfNameindex
  <2>1. PICK items \in Listing!Interfaces, label \in {"calloc", "refuse"}, opens \in BOOLEAN :
             Listing!Begin("if_nameindex", items, label, opens)
    BY <1>3 DEF Listing!IfNameindex
  <2> QED
    BY <2>1, ListItems, ListBeginStep DEF Builders
<1>4. CASE Listing!Scandir
  <2>1. PICK items \in Listing!Interfaces, opens \in BOOLEAN :
             Listing!Begin("scandir", items, IF opens THEN "next" ELSE "refuse", opens)
    BY <1>4 DEF Listing!Scandir
  <2>2. (IF opens THEN "next" ELSE "refuse") \in {"next", "refuse"}
    OBVIOUS
  <2> QED
    BY <2>1, <2>2, ListItems, ListBeginStep
<1> QED
  BY <1>1, <1>2, <1>3, <1>4

-----------------------------------------------------------------------------
\* Items pass that do not go into a list, and entries begin.
LEMMA ListOtherStep ==
  ASSUME ListInv, Listing!Other
  PROVE  ListInv'
<1>1. /\ listPc = "next" /\ todo # <<>> /\ Head(todo) = "other" /\ todo' = Tail(todo)
      /\ UNCHANGED <<heap, listOpen, listPc, listFn, fields, new, list, room, failed, wanted>>
  BY DEF Listing!Other
<1>2. /\ Tail(todo) \in Seq({"other", "link", "inet", "named", "plain"})
      /\ Len(Tail(todo)) = Len(todo) - 1 /\ Len(todo) \in Nat /\ Len(list) \in Nat
      /\ Listing!Wanted(Tail(todo)) = Listing!Wanted(todo)
      /\ Listing!Wanted(Tail(todo)) \in Nat
  BY <1>1, WantedTail DEF ListInv, ListShape
<1>3. ListShape'
  BY <1>1, <1>2 DEF ListInv, ListShape
<1>4. ListPlaceInv' /\ EntryInv' /\ HeapInv' /\ LeftInv'
  BY <1>1 DEF ListInv, ListPlaceInv, EntryInv, HeapInv, LeftInv
<1>5. CountInv' /\ RoomInv'
  BY <1>1, <1>2, LibraryAssumption DEF ListInv, ListShape, CountInv, RoomInv
<1> QED
  BY <1>3, <1>4, <1>5 DEF ListInv

LEMMA ListMakeStep ==
  ASSUME ListInv, NEW fs \in Seq(FieldsOf(listFn)), Listing!Make(fs), listFn \in Builders,
         fs # <<>>, Head(fs) \in {"node", "name"}
  PROVE  ListInv'
<1>1. /\ listPc = "next" /\ todo # <<>> /\ Head(todo) # "other" /\ fields' = fs /\ listPc' = "field"
      /\ UNCHANGED <<heap, listOpen, listFn, todo, new, list, room, failed, wanted>>
  BY DEF Listing!Make
<1>2. fs \in Seq(FieldNames) /\ \A i \in DOMAIN fs : fs[i] \in FieldsOf(listFn)
  <2>1. FieldsOf(listFn) \subseteq FieldNames
    BY FieldsNamed DEF Builders
  <2> QED
    BY <2>1
<1>3. ListShape'
  BY <1>1, <1>2 DEF ListInv, ListShape
<1>4. ListPlaceInv' /\ HeapInv' /\ LeftInv'
  BY <1>1 DEF ListInv, ListPlaceInv, HeapInv, LeftInv
<1>6. EntryInv'
  BY <1>1, <1>2 DEF ListInv, EntryInv
<1>5. CountInv' /\ RoomInv'
  BY <1>1 DEF ListInv, ListShape, CountInv, RoomInv
<1> QED
  BY <1>3, <1>4, <1>5, <1>6 DEF ListInv

\* The fields of an entry are some that every entry has, and some more.
LEMMA FieldsJoined ==
  ASSUME NEW S, NEW a \in Seq(S), NEW b \in Seq(S), a # <<>>
  PROVE  a \o b \in Seq(S) /\ a \o b # <<>> /\ Head(a \o b) = Head(a)
<1> DEFINE c == a \o b
<1>1. c \in Seq(S) /\ Len(c) = Len(a) + Len(b) /\ Len(a) \in Nat /\ Len(b) \in Nat
      /\ Len(a) > 0 /\ c[1] = a[1]
  OBVIOUS
<1> HIDE DEF c
<1>2. c # <<>> /\ Head(c) = c[1] /\ Head(a) = a[1]
  BY <1>1
<1> QED
  BY <1>1, <1>2 DEF c

LEMMA ListMakesStep ==
  ASSUME ListInv, Listing!Makeaddrinfo \/ Listing!NextIfaddr \/ Listing!NextName
  PROVE  ListInv'
<1>1. CASE Listing!Makeaddrinfo
  <2> DEFINE a == <<"node", "addr">>
             b == IF Head(todo) = "named" THEN <<"canonname">> ELSE <<>>
  <2>1. listFn = "getaddrinfo" /\ Listing!Make(a \o b)
    BY <1>1 DEF Listing!Makeaddrinfo
  <2>2. a \in Seq(FieldsOf(listFn)) /\ b \in Seq(FieldsOf(listFn)) /\ a # <<>> /\ Head(a) = "node"
    BY <2>1, FieldsAre
  <2> HIDE DEF a, b
  <2>3. a \o b \in Seq(FieldsOf(listFn)) /\ a \o b # <<>> /\ Head(a \o b) = "node"
    BY <2>2, FieldsJoined
  <2> QED
    BY <2>1, <2>3, ListMakeStep DEF Builders
<1>2. CASE Listing!NextIfaddr
  <2> DEFINE a == <<"node", "name", "addr">>
             b == IF Head(todo) = "inet" THEN <<"netmask", "broadaddr">> ELSE <<>>
  <2>1. listFn = "getifaddrs" /\ Listing!Make(a \o b)
    BY <1>2 DEF Listing!NextIfaddr
  <2>2. a \in Seq(FieldsOf(listFn)) /\ b \in Seq(FieldsOf(listFn)) /\ a # <<>> /\ Head(a) = "node"
    BY <2>1, FieldsAre
  <2> HIDE DEF a, b
  <2>3. a \o b \in Seq(FieldsOf(listFn)) /\ a \o b # <<>> /\ Head(a \o b) = "node"
    BY <2>2, FieldsJoined
  <2> QED
    BY <2>1, <2>3, ListMakeStep DEF Builders
<1>3. CASE Listing!NextName
  <2>1. listFn = "if_nameindex" /\ Listing!Make(<<"name">>)
    BY <1>3 DEF Listing!NextName
  <2>2. <<"name">> \in Seq(FieldsOf(listFn)) /\ <<"name">> # <<>> /\ Head(<<"name">>) = "name"
    BY <2>1, FieldsAre
  <2> QED
    BY <2>1, <2>2, ListMakeStep DEF Builders
<1> QED
  BY <1>1, <1>2, <1>3

\* A field is allocated, or left out when an ioctl fails.
LEMMA ListFieldStep ==
  ASSUME ListInv, Listing!Field
  PROVE  ListInv'
<1> DEFINE f == Head(fields)
<1>1. /\ listPc = "field" /\ fields # <<>>
      /\ heap' = heap \cup Listing!Of(Len(list) + 1, {f})
      /\ new' = new \cup {f} /\ fields' = Tail(fields)
      /\ UNCHANGED <<listOpen, listPc, listFn, todo, list, room, failed, wanted>>
  BY DEF Listing!Field
<1>2. /\ fields \in Seq(FieldNames) /\ f \in FieldNames /\ Tail(fields) \in Seq(FieldNames)
      /\ f \in FieldsOf(listFn)
      /\ \A i \in DOMAIN Tail(fields) : Tail(fields)[i] \in FieldsOf(listFn)
  <2>1. fields \in Seq(FieldNames) /\ \A i \in DOMAIN fields : fields[i] \in FieldsOf(listFn)
    BY DEF ListInv, ListShape, EntryInv
  <2> QED
    BY <1>1, <2>1
<1> HIDE DEF f
<1>3. ListShape'
  BY <1>1, <1>2 DEF ListInv, ListShape
<1>4. ListPlaceInv' /\ LeftInv' /\ CountInv' /\ RoomInv'
  BY <1>1 DEF ListInv, ListPlaceInv, LeftInv, CountInv, RoomInv
<1>5. EntryInv'
  BY <1>1, <1>2 DEF ListInv, EntryInv
<1>6. HeapInv'
  <2>1. Listing!Of(Len(list) + 1, new \cup {f})
          = Listing!Of(Len(list) + 1, new) \cup Listing!Of(Len(list) + 1, {f})
    BY BlocksEmpty
  <2> QED
    BY <1>1, <2>1 DEF ListInv, HeapInv
<1> QED
  BY <1>3, <1>4, <1>5, <1>6 DEF ListInv

LEMMA ListIoctlFailsStep ==
  ASSUME ListInv, Listing!IoctlFails
  PROVE  ListInv'
<1>1. /\ listPc = "field" /\ fields # <<>> /\ Head(fields) \notin {"node", "name"}
      /\ fields' = Tail(fields)
      /\ UNCHANGED <<heap, listOpen, listPc, listFn, todo, new, list, room, failed, wanted>>
  BY DEF Listing!IoctlFails
<1>2. Tail(fields) \in Seq(FieldNames)
      /\ \A i \in DOMAIN Tail(fields) : Tail(fields)[i] \in FieldsOf(listFn)
  <2>1. fields \in Seq(FieldNames) /\ \A i \in DOMAIN fields : fields[i] \in FieldsOf(listFn)
    BY DEF ListInv, ListShape, EntryInv
  <2> QED
    BY <1>1, <2>1
<1>3. ListShape'
  BY <1>1, <1>2 DEF ListInv, ListShape
<1>4. ListPlaceInv' /\ LeftInv' /\ CountInv' /\ RoomInv' /\ HeapInv'
  BY <1>1 DEF ListInv, ListPlaceInv, LeftInv, CountInv, RoomInv, HeapInv
<1>5. EntryInv'
  BY <1>1, <1>2 DEF ListInv, EntryInv
<1> QED
  BY <1>3, <1>4, <1>5 DEF ListInv

\* An entry goes into the list; what follows is one item less, and one that was wanted.
LEMMA ListAppendStep ==
  ASSUME ListInv, NEW fs, fs \subseteq FieldsOf(listFn), fs # {}, list' = Append(list, fs),
         todo # <<>>, Head(todo) # "other", todo' = Tail(todo), listPc' = "next", listPc # "out",
         listPc # "end", failed = "none",
         new' = {}, fields' = <<>>,
         heap' = Listing!BlocksOf(list) \cup Listing!Of(Len(list) + 1, fs)
                   \cup (IF room > 0 THEN {Listing!Array} ELSE {}),
         listFn = "if_nameindex" => Len(list) + Len(todo) + 1 <= room,
         listFn = "scandir" => Len(list) < room,
         UNCHANGED <<listOpen, listFn, room, failed, wanted>>
  PROVE  ListInv'
<1>1. /\ list \in Seq(SUBSET FieldNames) /\ todo \in Seq({"other", "link", "inet", "named", "plain"})
      /\ listFn \in Builders \cup {"scandir", "none"} /\ room \in Nat /\ wanted \in Nat
  BY DEF ListInv, ListShape
<1>2. fs \in SUBSET FieldNames
  BY <1>1, FieldsNamed
<1>3. /\ Tail(todo) \in Seq({"other", "link", "inet", "named", "plain"})
      /\ Len(Tail(todo)) = Len(todo) - 1 /\ Len(todo) \in Nat
      /\ Listing!Wanted(todo) = Listing!Wanted(Tail(todo)) + 1
      /\ Listing!Wanted(Tail(todo)) \in Nat
  <2>1. /\ Tail(todo) \in Seq({"other", "link", "inet", "named", "plain"})
        /\ Len(Tail(todo)) = Len(todo) - 1 /\ Len(todo) \in Nat
    BY <1>1
  <2>2. Listing!Wanted(todo) = Listing!Wanted(Tail(todo)) + 1
    BY <1>1, WantedTail
  <2>3. Listing!Wanted(Tail(todo)) \in Nat
    BY <2>1, WantedTail
  <2> QED
    BY <2>1, <2>2, <2>3
<1>4. /\ list' \in Seq(SUBSET FieldNames) /\ Len(list') = Len(list) + 1 /\ Len(list) \in Nat
      /\ DOMAIN list' = 1..(Len(list) + 1) /\ DOMAIN list = 1..Len(list)
      /\ list'[Len(list) + 1] = fs /\ \A k \in 1..Len(list) : list'[k] = list[k]
  BY <1>1, <1>2, AppendProperties
<1>5. ListShape'
  BY <1>1, <1>3, <1>4 DEF ListInv, ListShape
<1>6. ListPlaceInv' /\ LeftInv'
  BY <1>1 DEF ListInv, ListPlaceInv, LeftInv
<1>7. EntryInv'
  <2>1. \A k \in DOMAIN list : list[k] # {} /\ list[k] \subseteq FieldsOf(listFn)
    BY DEF ListInv, EntryInv
  <2>2. \A k \in DOMAIN list' : list'[k] # {} /\ list'[k] \subseteq FieldsOf(listFn)
    BY <1>4, <2>1
  <2> QED
    BY <2>2 DEF EntryInv
<1>8. HeapInv'
  <2>1. Listing!BlocksOf(list') = Listing!BlocksOf(list) \cup Listing!Of(Len(list) + 1, fs)
    BY <1>1, BlocksAppend
  <2>2. Listing!Of(Len(list') + 1, {}) = {}
    BY BlocksEmpty
  <2> QED
    BY <2>1, <2>2 DEF HeapInv
<1>9. CountInv'
  <2>1. Len(list') + Len(todo') = Len(list) + Len(todo)
    BY <1>3, <1>4
  <2>2. Len(list') + Listing!Wanted(todo') = Len(list) + Listing!Wanted(todo)
    BY <1>3, <1>4
  <2>3. (Listing!Wanted(todo))' = Listing!Wanted(todo')
    BY DEF Listing!Wanted
  <2> QED
    BY <2>1, <2>2, <2>3 DEF ListInv, CountInv
<1>10. RoomInv'
  BY <1>1, <1>3, <1>4 DEF ListInv, RoomInv, Builders, ListPlaceInv
<1> QED
  BY <1>5, <1>6, <1>7, <1>8, <1>9, <1>10 DEF ListInv

LEMMA ListLinkStep ==
  ASSUME ListInv, Listing!Link
  PROVE  ListInv'
<1>1. /\ listPc = "field" /\ fields = <<>> /\ list' = Append(list, new)
      /\ new' = {} /\ todo' = Tail(todo) /\ listPc' = "next"
      /\ UNCHANGED <<heap, listOpen, listFn, fields, room, failed, wanted>>
  BY DEF Listing!Link, Listing!Making
<1>2. new # {} /\ new \subseteq FieldsOf(listFn)
  BY <1>1 DEF ListInv, EntryInv
<1>3. todo # <<>> /\ Head(todo) # "other" /\ listFn \in Builders /\ failed = "none"
  BY <1>1 DEF ListInv, ListPlaceInv
<1>4. heap = Listing!BlocksOf(list) \cup Listing!Of(Len(list) + 1, new)
               \cup (IF room > 0 THEN {Listing!Array} ELSE {})
  BY <1>1 DEF ListInv, HeapInv
<1>5. listFn = "if_nameindex" => Len(list) + Len(todo) + 1 <= room
  BY <1>1 DEF ListInv, RoomInv
<1>6. listFn # "scandir"
  BY <1>3 DEF Builders
<1> QED
  BY <1>1, <1>2, <1>3, <1>4, <1>5, <1>6, ListAppendStep

LEMMA ListStoreStep ==
  ASSUME ListInv, Listing!Store
  PROVE  ListInv'
<1>1. /\ listPc = "malloc" /\ list' = Append(list, {"dirent"})
      /\ heap' = heap \cup Listing!Of(Len(list) + 1, {"dirent"})
      /\ todo' = Tail(todo) /\ listPc' = "next"
      /\ UNCHANGED <<listOpen, listFn, fields, new, room, failed, wanted>>
  BY DEF Listing!Store
<1>2. new = {} /\ fields = <<>>
  BY <1>1 DEF ListInv, EntryInv
<1>3. todo # <<>> /\ Head(todo) # "other" /\ listFn = "scandir" /\ failed = "none"
  BY <1>1 DEF ListInv, ListPlaceInv
<1>4. heap = Listing!BlocksOf(list) \cup (IF room > 0 THEN {Listing!Array} ELSE {})
  BY <1>1, <1>2, BlocksEmpty DEF ListInv, HeapInv
<1>5. Len(list) < room
  BY <1>1 DEF ListInv, RoomInv
<1>6. {"dirent"} \subseteq FieldsOf(listFn)
  BY <1>3, FieldsAre
<1>7. heap' = Listing!BlocksOf(list) \cup Listing!Of(Len(list) + 1, {"dirent"})
                \cup (IF room > 0 THEN {Listing!Array} ELSE {})
  BY <1>1, <1>4
<1> QED
  BY <1>1, <1>2, <1>3, <1>5, <1>6, <1>7, ListAppendStep

-----------------------------------------------------------------------------
\* The array is allocated or grows, and scandir() takes its turns.
LEMMA ListCallocStep ==
  ASSUME ListInv, Listing!Calloc
  PROVE  ListInv'
<1>1. /\ listPc = "calloc" /\ heap' = {Listing!Array} /\ room' = Len(todo) + 1 /\ listPc' = "next"
      /\ UNCHANGED <<listOpen, listFn, todo, fields, new, list, failed, wanted>>
  BY DEF Listing!Calloc
<1>2. listFn = "if_nameindex" /\ list = <<>> /\ failed = "none" /\ new = {} /\ fields = <<>>
  BY <1>1 DEF ListInv, ListPlaceInv, EntryInv
<1>3. Len(todo) \in Nat
  BY DEF ListInv, ListShape
<1>4. ListShape'
  BY <1>1, <1>3 DEF ListInv, ListShape
<1>5. ListPlaceInv' /\ EntryInv' /\ LeftInv' /\ CountInv'
  BY <1>1, <1>2 DEF ListInv, ListPlaceInv, EntryInv, LeftInv, CountInv
<1>6. HeapInv'
  <2>1. room' > 0
    BY <1>1, <1>3
  <2> QED
    BY <1>1, <1>2, <2>1, BlocksEmpty DEF HeapInv
<1>7. RoomInv'
  BY <1>1, <1>2, <1>3 DEF RoomInv
<1> QED
  BY <1>4, <1>5, <1>6, <1>7 DEF ListInv

LEMMA ListGrowStep ==
  ASSUME ListInv, Listing!Grow
  PROVE  ListInv'
<1>1. /\ listPc = "grow" /\ listPc' = "malloc"
      /\ heap' = heap \cup {Listing!Array} /\ room' = (IF room = 0 THEN Room ELSE 2 * room)
      /\ UNCHANGED <<listOpen, listFn, todo, fields, new, list, failed, wanted>>
  BY DEF Listing!Grow
<1>2. listFn = "scandir" /\ Len(list) <= room /\ room \in Nat /\ Len(list) \in Nat
  BY <1>1 DEF ListInv, ListPlaceInv, RoomInv, ListShape
<1>3. room' \in Nat /\ room' > 0 /\ Len(list) < room'
  BY <1>1, <1>2, LibraryAssumption
<1>4. ListShape'
  BY <1>1, <1>3 DEF ListInv, ListShape
<1>5. ListPlaceInv' /\ EntryInv' /\ LeftInv' /\ CountInv'
  BY <1>1, <1>2 DEF ListInv, ListPlaceInv, EntryInv, LeftInv, CountInv
<1>6. HeapInv'
  BY <1>1, <1>3 DEF ListInv, HeapInv
<1>7. RoomInv'
  BY <1>1, <1>2, <1>3 DEF RoomInv, Builders
<1> QED
  BY <1>4, <1>5, <1>6, <1>7 DEF ListInv

LEMMA ListScanStep ==
  ASSUME ListInv, Listing!ReaddirFails \/ Listing!NextDirent \/ Listing!DirentFails
                    \/ Listing!ReaddirDone
  PROVE  ListInv'
<1>1. /\ UNCHANGED <<heap, listOpen, listFn, todo, fields, new, list, room, wanted>>
      /\ listPc \in {"next", "grow", "malloc"}
  BY DEF Listing!ReaddirFails, Listing!NextDirent, Listing!DirentFails, Listing!ReaddirDone, Listing!Fails
<1>2. \/ listPc' = "end" /\ failed' \in {"EBADF", "ENOMEM"}
      \/ listPc' = "end" /\ failed' = failed /\ todo = <<>> /\ listPc = "next"
      \/ /\ listPc' = "grow" /\ failed' = failed /\ todo # <<>> /\ Head(todo) # "other"
      \/ /\ listPc' = "malloc" /\ failed' = failed /\ todo # <<>> /\ Head(todo) # "other"
         /\ Len(list) # room
  BY DEF Listing!ReaddirFails, Listing!NextDirent, Listing!DirentFails, Listing!ReaddirDone, Listing!Fails
<1>3. listFn = "scandir" /\ failed = "none" /\ new = {} /\ fields = <<>>
  <2>1. listFn = "scandir"
    BY DEF ListInv, ListPlaceInv, Listing!ReaddirFails, Listing!NextDirent, Listing!DirentFails,
           Listing!ReaddirDone
  <2> QED
    BY <1>1, <2>1 DEF ListInv, ListPlaceInv, EntryInv
<1>4. Len(list) \in Nat /\ room \in Nat /\ Len(list) <= room
  BY <1>3 DEF ListInv, ListShape, RoomInv
<1>5. ListShape' /\ ListPlaceInv'
  BY <1>1, <1>2, <1>3 DEF ListInv, ListShape, ListPlaceInv
<1>6. EntryInv' /\ HeapInv' /\ LeftInv'
  BY <1>1, <1>2, <1>3 DEF ListInv, EntryInv, HeapInv, LeftInv
<1>7. RoomInv'
  BY <1>1, <1>2, <1>3, <1>4 DEF RoomInv, Builders
<1>8. CountInv'
  <2>1. /\ Len(list) + Len(todo) <= 2 * MaxItems
        /\ Len(list) + Listing!Wanted(todo) = wanted
    BY <1>1 DEF ListInv, CountInv
  <2>2. todo = <<>> => Listing!Wanted(todo) = 0
    BY WantedTail DEF ListInv, ListShape
  <2>3. (Listing!Wanted(todo))' = Listing!Wanted(todo)
    BY <1>1 DEF Listing!Wanted
  <2> QED
    BY <1>1, <1>2, <1>3, <1>4, <2>1, <2>2, <2>3 DEF CountInv
<1> QED
  BY <1>5, <1>6, <1>7, <1>8 DEF ListInv

-----------------------------------------------------------------------------
\* A call returns: with a list, or with less than that.
LEMMA ListReturnsStep ==
  ASSUME ListInv, NEW blocks, Listing!Return(blocks, "none"), listPc # "out", listPc # "field",
         blocks = heap, listFn # "if_nameindex", failed = "none",
         Len(list) = wanted
  PROVE  ListInv'
<1>1. /\ heap' = heap /\ failed' = "none" /\ listOpen' = FALSE /\ listPc' = "out"
      /\ UNCHANGED <<listFn, todo, fields, new, list, room, wanted>>
  BY DEF Listing!Return
<1>2. ListShape' /\ ListPlaceInv' /\ EntryInv' /\ HeapInv' /\ LeftInv' /\ CountInv' /\ RoomInv'
  BY <1>1 DEF ListInv, ListShape, ListPlaceInv, EntryInv, HeapInv, LeftInv, CountInv, RoomInv
<1> QED
  BY <1>2 DEF ListInv

LEMMA ListFailsStep ==
  ASSUME ListInv, NEW blocks,
         NEW why \in {"refused", "EAI_SYSTEM", "ENOMEM", "calloc", "strdup", "realloc", "EBADF"},
         Listing!Return(blocks, why), listPc # "out",
         \/ blocks = {}
         \/ listFn = "getaddrinfo" /\ Len(list) = 1 /\ blocks = Listing!BlocksOf(list)
         \/ /\ listFn = "if_nameindex" /\ why = "realloc" /\ room > 0
            /\ blocks = Listing!BlocksOf(list) \cup {Listing!Array}
  PROVE  ListInv'
<1>1. /\ heap' = blocks /\ failed' = why /\ listOpen' = FALSE /\ listPc' = "out"
      /\ UNCHANGED <<listFn, todo, fields, new, list, room, wanted>>
  BY DEF Listing!Return
<1>2. ListShape' /\ ListPlaceInv' /\ EntryInv' /\ HeapInv' /\ CountInv' /\ RoomInv'
  BY <1>1 DEF ListInv, ListShape, ListPlaceInv, EntryInv, HeapInv, CountInv, RoomInv
<1>3. LeftInv'
  BY <1>1 DEF LeftInv
<1> QED
  BY <1>2, <1>3 DEF ListInv

LEMMA ListRefuseStep ==
  ASSUME ListInv, Listing!Refuse \/ Listing!CallocFails
  PROVE  ListInv'
<1>1. listPc \in {"refuse", "calloc"} /\ \E why \in {"refused", "calloc"} : Listing!Return(heap, why)
  BY DEF Listing!Refuse, Listing!CallocFails
<1>2. list = <<>> /\ room = 0 /\ new = {}
  BY <1>1 DEF ListInv, ListPlaceInv, RoomInv, EntryInv
<1>3. heap = {}
  BY <1>1, <1>2, BlocksEmpty DEF ListInv, HeapInv
<1> QED
  BY <1>1, <1>3, ListFailsStep

LEMMA ListDoneStep ==
  ASSUME ListInv, Listing!AddrinfoDone \/ Listing!IfaddrsDone
  PROVE  ListInv'
<1>1. /\ listFn \in {"getaddrinfo", "getifaddrs"} /\ listPc = "next" /\ todo = <<>>
      /\ Listing!Return(heap, "none")
  BY DEF Listing!AddrinfoDone, Listing!IfaddrsDone
<1>2. failed = "none" /\ Len(list) + Listing!Wanted(todo) = wanted /\ Len(list) \in Nat
  BY <1>1 DEF ListInv, ListPlaceInv, CountInv, ListShape
<1>3. Listing!Wanted(todo) = 0
  BY <1>1, WantedTail DEF ListInv, ListShape
<1>4. Len(list) = wanted
  BY <1>2, <1>3
<1> QED
  BY <1>1, <1>2, <1>4, ListReturnsStep

\* What is allocated while an entry is made.
LEMMA ListMaking ==
  ASSUME ListInv, listPc = "field"
  PROVE  /\ Listing!Making \in Seq(SUBSET FieldNames)
         /\ \A k \in DOMAIN Listing!Making : Listing!Making[k] \subseteq FieldsOf(listFn)
         /\ heap = Listing!BlocksOf(Listing!Making) \cup (IF room > 0 THEN {Listing!Array} ELSE {})
<1>1. list \in Seq(SUBSET FieldNames) /\ new \in SUBSET FieldNames
  BY DEF ListInv, ListShape
<1>2. /\ \A k \in DOMAIN list : list[k] \subseteq FieldsOf(listFn)
      /\ new \subseteq FieldsOf(listFn)
  BY DEF ListInv, EntryInv
<1>3. Listing!Making = Append(list, new)
  BY DEF Listing!Making
<1>4. \A k \in DOMAIN Listing!Making :
         Listing!Making[k] = new \/ (k \in DOMAIN list /\ Listing!Making[k] = list[k])
  BY <1>1, <1>3, AppendProperties
<1>5. Listing!BlocksOf(Listing!Making) = Listing!BlocksOf(list) \cup Listing!Of(Len(list) + 1, new)
  BY <1>1, <1>3, BlocksAppend
<1>6. heap = Listing!BlocksOf(list) \cup Listing!Of(Len(list) + 1, new)
               \cup (IF room > 0 THEN {Listing!Array} ELSE {})
  BY DEF ListInv, HeapInv
<1> QED
  BY <1>1, <1>2, <1>3, <1>4, <1>5, <1>6, AppendProperties

LEMMA ListAddrinfoFailsStep ==
  ASSUME ListInv, Listing!AddrinfoFails
  PROVE  ListInv'
<1>1. /\ listFn = "getaddrinfo" /\ listPc = "field"
      /\ Listing!Return(heap \ (Listing!FreeAddrinfo(Listing!Making) \ Listing!FreeAddrinfo(list)),
                        "EAI_SYSTEM")
  BY DEF Listing!AddrinfoFails
<1> DEFINE F == {"canonname", "addr", "node"}
<1>2. F = FieldsOf(listFn)
  BY <1>1, FieldsAre
<1>3. Listing!FreeAddrinfo(Listing!Making) = Listing!BlocksOf(Listing!Making)
  BY <1>1, <1>2, ListMaking, FreedWhole DEF Listing!FreeAddrinfo
<1>4. list \in Seq(SUBSET FieldNames) /\ \A k \in DOMAIN list : list[k] \subseteq F
  BY <1>2 DEF ListInv, ListShape, EntryInv
<1>5. Listing!FreeAddrinfo(list) = Listing!BlocksOf(list)
  BY <1>4, FreedWhole DEF Listing!FreeAddrinfo
<1>6. room = 0
  BY <1>1 DEF ListInv, RoomInv
<1>7. heap = Listing!BlocksOf(Listing!Making)
  BY <1>1, <1>6, ListMaking
<1>8. Listing!BlocksOf(Listing!Making) = Listing!BlocksOf(list) \cup Listing!Of(Len(list) + 1, new)
  BY <1>4, BlocksAppend DEF Listing!Making
<1> DEFINE left == heap \ (Listing!FreeAddrinfo(Listing!Making) \ Listing!FreeAddrinfo(list))
<1>9. left = Listing!BlocksOf(list)
  BY <1>3, <1>5, <1>7, <1>8
<1>10. Len(list) = 0 \/ Len(list) = 1
  <2>1. Len(list) + Len(todo) <= 2
    BY <1>1 DEF ListInv, CountInv
  <2>2. todo # <<>> /\ todo \in Seq({"other", "link", "inet", "named", "plain"})
    BY <1>1 DEF ListInv, ListPlaceInv, ListShape
  <2>3. Len(todo) \in Nat /\ Len(todo) > 0
    BY <2>2
  <2>4. Len(list) \in Nat
    BY <1>4
  <2>5. \A m, n \in Nat : m + n <= 2 /\ n > 0 => m = 0 \/ m = 1
    OBVIOUS
  <2> QED
    BY <2>1, <2>3, <2>4, <2>5
<1>11. Len(list) = 0 => left = {}
  BY <1>4, <1>9, BlocksEmpty
<1>12. Listing!Return(left, "EAI_SYSTEM")
  BY <1>1
<1> HIDE DEF left
<1> QED
  BY <1>1, <1>9, <1>10, <1>11, <1>12, ListFailsStep

LEMMA ListIfaddrFailsStep ==
  ASSUME ListInv, Listing!IfaddrFails
  PROVE  ListInv'
<1>1. /\ listFn = "getifaddrs" /\ listPc = "field"
      /\ Listing!Return(heap \ Listing!FreeIfaddrs(Listing!Making), "ENOMEM")
  BY DEF Listing!IfaddrFails
<1>2. FieldsOf(listFn) = {"name", "addr", "netmask", "broadaddr", "node"}
  BY <1>1, FieldsAre
<1>3. Listing!FreeIfaddrs(Listing!Making) = Listing!BlocksOf(Listing!Making)
  BY <1>1, <1>2, ListMaking, FreedWhole DEF Listing!FreeIfaddrs
<1>4. room = 0
  BY <1>1 DEF ListInv, RoomInv
<1>5. heap \ Listing!FreeIfaddrs(Listing!Making) = {}
  BY <1>1, <1>3, <1>4, ListMaking
<1> QED
  BY <1>1, <1>5, ListFailsStep

LEMMA ListNameFailsStep ==
  ASSUME ListInv, Listing!NameFails
  PROVE  ListInv'
<1>1. /\ listFn = "if_nameindex" /\ listPc = "field"
      /\ Listing!Return(heap \ Listing!FreeNameindex(Listing!Making), "strdup")
  BY DEF Listing!NameFails
<1>2. FieldsOf(listFn) = {"name"}
  BY <1>1, FieldsAre
<1>3. Listing!FreeNameindex(Listing!Making) = Listing!BlocksOf(Listing!Making) \cup {Listing!Array}
  BY <1>1, <1>2, ListMaking, FreedWhole DEF Listing!FreeNameindex
<1>5. heap \ Listing!FreeNameindex(Listing!Making) = {}
  BY <1>1, <1>3, ListMaking
<1> QED
  BY <1>1, <1>5, ListFailsStep

LEMMA ListShrinkStep ==
  ASSUME ListInv, Listing!Shrink \/ Listing!ShrinkFails
  PROVE  ListInv'
<1>1. listFn = "if_nameindex" /\ listPc = "next" /\ todo = <<>>
  BY DEF Listing!Shrink, Listing!ShrinkFails
<1>2. /\ failed = "none" /\ new = {} /\ fields = <<>>
      /\ Len(list) + Len(todo) + 1 <= room /\ room \in Nat
      /\ Len(list) + Listing!Wanted(todo) = wanted /\ list \in Seq(SUBSET FieldNames)
  BY <1>1 DEF ListInv, ListShape, ListPlaceInv, EntryInv, RoomInv, CountInv
<1>3. Len(list) \in Nat /\ Len(list) + 1 <= room /\ room > 0
  BY <1>1, <1>2
<1>4. Listing!Wanted(todo) = 0
  BY <1>1, WantedTail DEF ListInv, ListShape
<1>5. Len(list) = wanted
  BY <1>2, <1>3, <1>4
<1>6. heap = Listing!BlocksOf(list) \cup {Listing!Array}
  BY <1>1, <1>2, <1>3, BlocksEmpty DEF ListInv, HeapInv
<1>7. CASE Listing!Shrink
  <2>1. /\ listOpen' = FALSE /\ listPc' = "out"
        /\ room' = (IF Len(list) + 1 # room - 1 THEN Len(list) + 1 ELSE room)
        /\ UNCHANGED <<heap, listFn, todo, fields, new, list, failed, wanted>>
    BY <1>7 DEF Listing!Shrink
  <2>2. room' \in Nat /\ room' > 0 /\ Len(list) + 1 <= room'
    BY <1>2, <1>3, <2>1
  <2>3. ListShape'
    BY <2>1, <2>2 DEF ListInv, ListShape
  <2>4. ListPlaceInv' /\ EntryInv' /\ LeftInv' /\ CountInv'
    BY <1>1, <1>2, <1>5, <2>1 DEF ListInv, ListPlaceInv, EntryInv, LeftInv, CountInv
  <2>5. HeapInv'
    BY <1>2, <1>6, <2>1, <2>2, BlocksEmpty DEF HeapInv
  <2>6. RoomInv'
    BY <1>1, <2>1, <2>2 DEF RoomInv
  <2> QED
    BY <2>3, <2>4, <2>5, <2>6 DEF ListInv
<1>8. CASE Listing!ShrinkFails
  <2>1. Listing!Return(heap, "realloc")
    BY <1>8 DEF Listing!ShrinkFails
  <2> QED
    BY <1>1, <1>3, <1>6, <2>1, ListFailsStep
<1> QED
  BY <1>7, <1>8

LEMMA ListEndStep ==
  ASSUME ListInv, Listing!EndScandir
  PROVE  ListInv'
<1>1. /\ listPc = "end"
      /\ Listing!Return(IF failed = "none" THEN heap ELSE heap \ Listing!FreeDirents(list), failed)
  BY DEF Listing!EndScandir
<1>2. listFn = "scandir" /\ new = {}
  BY <1>1 DEF ListInv, ListPlaceInv, EntryInv
<1>3. CASE failed = "none"
  <2>1. Len(list) = wanted
    BY <1>1, <1>3 DEF ListInv, CountInv
  <2> QED
    BY <1>1, <1>2, <1>3, <2>1, ListReturnsStep
<1>4. CASE failed # "none"
  <2>1. heap \subseteq Listing!BlocksOf(list) \cup {Listing!Array}
    BY <1>1, <1>2, BlocksEmpty DEF ListInv, HeapInv
  <2>2. heap \ Listing!FreeDirents(list) = {}
    BY <2>1 DEF Listing!FreeDirents
  <2>3. Listing!Return({}, failed)
    BY <1>1, <1>4, <2>2
  <2>4. failed \in {"refused", "EAI_SYSTEM", "ENOMEM", "calloc", "strdup", "realloc", "EBADF"}
    BY <1>4 DEF ListInv, ListShape
  <2> QED
    BY <1>1, <2>3, <2>4, ListFailsStep
<1> QED
  BY <1>3, <1>4

LEMMA ListGiveBackStep ==
  ASSUME ListInv, Listing!GiveBack
  PROVE  ListInv'
<1>1. /\ listPc = "out" /\ failed = "none" /\ heap # {}
      /\ list' = <<>> /\ room' = 0 /\ wanted' = 0 /\ listFn' = "none"
      /\ UNCHANGED <<listOpen, listPc, todo, fields, new, failed>>
  BY DEF Listing!GiveBack
<1>2. /\ new = {} /\ fields = <<>> /\ list \in Seq(SUBSET FieldNames)
      /\ \A k \in DOMAIN list : list[k] \subseteq FieldsOf(listFn)
      /\ heap = Listing!BlocksOf(list) \cup (IF room > 0 THEN {Listing!Array} ELSE {})
  BY <1>1, BlocksEmpty DEF ListInv, ListShape, EntryInv, HeapInv
<1>3. listFn \in {"getaddrinfo", "getifaddrs", "if_nameindex", "scandir"}
  <2>1. listFn # "none"
    BY <1>1, <1>2, BlocksEmpty DEF ListInv, ListPlaceInv, RoomInv
  <2> QED
    BY <2>1 DEF ListInv, ListShape, Builders
<1>4. heap' = {}
  <2>1. CASE listFn = "getaddrinfo"
    <3>1. FieldsOf(listFn) = {"canonname", "addr", "node"} /\ room = 0
      BY <2>1, FieldsAre DEF ListInv, RoomInv
    <3>2. Listing!FreeAddrinfo(list) = Listing!BlocksOf(list)
      BY <1>2, <3>1, FreedWhole DEF Listing!FreeAddrinfo
    <3>3. heap' = heap \ Listing!FreeAddrinfo(list)
      BY <2>1 DEF Listing!GiveBack
    <3> QED
      BY <1>2, <3>1, <3>2, <3>3
  <2>2. CASE listFn = "getifaddrs"
    <3>1. FieldsOf(listFn) = {"name", "addr", "netmask", "broadaddr", "node"} /\ room = 0
      BY <2>2, FieldsAre DEF ListInv, RoomInv
    <3>2. Listing!FreeIfaddrs(list) = Listing!BlocksOf(list)
      BY <1>2, <3>1, FreedWhole DEF Listing!FreeIfaddrs
    <3>3. heap' = heap \ Listing!FreeIfaddrs(list)
      BY <2>2 DEF Listing!GiveBack
    <3> QED
      BY <1>2, <3>1, <3>2, <3>3
  <2>3. CASE listFn = "if_nameindex"
    <3>1. FieldsOf(listFn) = {"name"}
      BY <2>3, FieldsAre
    <3>2. Listing!FreeNameindex(list) = Listing!BlocksOf(list) \cup {Listing!Array}
      BY <1>2, <3>1, FreedWhole DEF Listing!FreeNameindex
    <3>3. heap' = heap \ Listing!FreeNameindex(list)
      BY <2>3 DEF Listing!GiveBack
    <3> QED
      BY <1>2, <3>2, <3>3
  <2>4. CASE listFn = "scandir"
    <3>3. heap' = heap \ Listing!FreeDirents(list)
      BY <2>4 DEF Listing!GiveBack
    <3> QED
      BY <1>2, <3>3 DEF Listing!FreeDirents
  <2> QED
    BY <1>3, <2>1, <2>2, <2>3, <2>4
<1>5. ListShape' /\ ListPlaceInv' /\ LeftInv'
  BY <1>1 DEF ListInv, ListShape, ListPlaceInv, LeftInv
<1>6. EntryInv' /\ HeapInv'
  BY <1>1, <1>2, <1>4, BlocksEmpty DEF EntryInv, HeapInv
<1>7. CountInv' /\ RoomInv'
  <2>1. Len(list) \in Nat /\ Len(todo) \in Nat /\ Len(list') = 0 /\ Len(list) + Len(todo) <= 2 * MaxItems
    BY <1>1, <1>2 DEF ListInv, ListShape, CountInv
  <2> QED
    BY <1>1, <2>1, LibraryAssumption DEF CountInv, RoomInv
<1> QED
  BY <1>5, <1>6, <1>7 DEF ListInv

LEMMA ListStep ==
  ASSUME ListInv, Listing!Next
  PROVE  ListInv'
BY ListCallStep, ListMakesStep, ListAddrinfoFailsStep, ListDoneStep, ListIoctlFailsStep,
   ListIfaddrFailsStep, ListCallocStep, ListRefuseStep, ListNameFailsStep, ListShrinkStep,
   ListScanStep, ListGrowStep, ListStoreStep, ListEndStep, ListOtherStep, ListFieldStep,
   ListLinkStep, ListGiveBackStep
   DEF Listing!Next

-----------------------------------------------------------------------------
\* Blocks belong to entries that there are, and have their names.
LEMMA BlocksTyped ==
  ASSUME NEW es \in Seq(SUBSET FieldNames), NEW n \in Nat, Len(es) <= n
  PROVE  Listing!BlocksOf(es) \subseteq (0..n) \X FieldNames
<1>1. DOMAIN es = 1..Len(es) /\ Len(es) \in Nat /\ \A k \in 1..Len(es) : es[k] \subseteq FieldNames
  OBVIOUS
<1>2. \A k \in 1..Len(es) : k \in 0..n
  BY <1>1
<1> QED
  BY <1>1, <1>2 DEF Listing!BlocksOf, Listing!Of

LEMMA ListTyped ==
  ASSUME ListInv
  PROVE  Listing!TypeOK
<1> DEFINE names == {"array", "node", "name", "addr", "canonname", "netmask", "broadaddr", "dirent"}
           N == 2 * MaxItems
<1>1. N \in Nat /\ FieldNames \subseteq names /\ Listing!Array \in (0..N) \X names
  BY LibraryAssumption DEF FieldNames, Listing!Array
<1>2. /\ list \in Seq(SUBSET FieldNames) /\ new \subseteq FieldNames /\ Len(list) \in Nat
      /\ Len(todo) \in Nat /\ Len(list) + Len(todo) <= N /\ todo \in Seq({"other", "link", "inet", "named", "plain"})
  BY DEF ListInv, ListShape, CountInv
<1> HIDE DEF N, names
<1>3. Len(list) <= N
  BY <1>1, <1>2
<1>4. Listing!BlocksOf(list) \subseteq (0..N) \X names
  BY <1>1, <1>2, <1>3, BlocksTyped
<1>5. listPc # "out" \/ failed = "none" => Listing!Of(Len(list) + 1, new) \subseteq (0..N) \X names
  <2>1. CASE listPc = "field"
    <3>1. todo # <<>>
      BY <2>1 DEF ListInv, ListPlaceInv
    <3>2. Len(list) + 1 \in 0..N
      BY <1>1, <1>2, <3>1
    <3> QED
      BY <1>1, <1>2, <3>2 DEF Listing!Of
  <2>2. CASE listPc # "field" /\ (listPc # "out" \/ failed = "none")
    BY <2>2, BlocksEmpty DEF ListInv, EntryInv
  <2> QED
    BY <2>1, <2>2
<1>6. heap \subseteq (0..N) \X names
  <2>1. CASE listPc # "out" \/ failed = "none"
    BY <1>1, <1>4, <1>5, <2>1 DEF ListInv, HeapInv
  <2>2. CASE listPc = "out" /\ failed # "none"
    BY <1>1, <1>4, <2>2 DEF ListInv, LeftInv
  <2> QED
    BY <2>1, <2>2
<1>7. Len(list) + Len(todo) <= N + 2
  BY <1>1, <1>2
<1>8. (\A k \in DOMAIN list : list[k] # {}) /\ (listOpen => listPc # "out")
  BY DEF ListInv, EntryInv, ListShape
<1> QED
  BY <1>6, <1>7, <1>8 DEF Listing!TypeOK, N, names

\* The invariant says what ListsOwned says.
LEMMA ListPromise ==
  ASSUME ListInv
  PROVE  ListsOwned
<1>1. Listing!InRoom
  <2>1. listFn = "if_nameindex" /\ heap # {} => Len(list) + 1 <= room
    <3> SUFFICES ASSUME listFn = "if_nameindex", heap # {}
                 PROVE  Len(list) + 1 <= room
      OBVIOUS
    <3>1. CASE room > 0
      BY <3>1 DEF ListInv, RoomInv
    <3>2. CASE ~(room > 0)
      <4>1. listPc # "out" /\ listFn = "if_nameindex"
        BY <3>2 DEF ListInv, RoomInv, LeftInv
      <4>2. listPc \in {"refuse", "calloc"} \/ listPc \in {"next", "field"}
        BY <4>1 DEF ListInv, ListShape, ListPlaceInv
      <4>3. listPc \notin {"refuse", "calloc"}
        BY <3>2, BlocksEmpty DEF ListInv, ListPlaceInv, HeapInv, EntryInv
      <4>4. Len(list) + Len(todo) + 1 <= room /\ Len(list) \in Nat /\ Len(todo) \in Nat /\ room \in Nat
        BY <4>1, <4>2, <4>3 DEF ListInv, RoomInv, ListShape
      <4> QED
        BY <4>4, <3>2
    <3> QED
      BY <3>1, <3>2
  <2>2. listFn = "scandir" => Len(list) <= room
    BY DEF ListInv, RoomInv
  <2> QED
    BY <2>1, <2>2 DEF Listing!InRoom
<1>2. listPc = "out" => ~listOpen
  BY DEF ListInv, ListShape
<1>3. ASSUME listPc = "out", failed = "none"
      PROVE  /\ Len(list) = wanted
             /\ heap \ {Listing!Array} = Listing!BlocksOf(list)
             /\ Listing!Array \in heap <=> room > 0
  <2>1. heap = Listing!BlocksOf(list) \cup (IF room > 0 THEN {Listing!Array} ELSE {})
    BY <1>3, BlocksEmpty DEF ListInv, HeapInv, EntryInv
  <2>2. Listing!Array \notin Listing!BlocksOf(list)
    BY BlocksApart DEF ListInv, ListShape
  <2>3. Len(list) = wanted
    BY <1>3 DEF ListInv, CountInv
  <2> QED
    BY <2>1, <2>2, <2>3
<1>4. listPc = "out" /\ failed # "none" =>
        \/ heap = {}
        \/ listFn = "getaddrinfo" /\ Len(list) = 1 /\ heap = Listing!BlocksOf(list)
        \/ listFn = "if_nameindex" /\ failed = "realloc"
  BY DEF ListInv, LeftInv
<1> QED
  BY <1>1, <1>2, <1>3, <1>4 DEF ListsOwned, Listing!ListsOwned

LEMMA LibListInv == LibSpec => []ListInv
<1>1. LibInit => ListInv
  BY ListInitInv DEF LibInit
<1>2. ListInv /\ [LibNext]_libVars => ListInv'
  <2> SUFFICES ASSUME ListInv, [LibNext]_libVars
               PROVE  ListInv'
    OBVIOUS
  <2>1. Listing!Next \/ UNCHANGED listVars
    BY DEF LibNext, libVars, listVars
  <2>2. CASE UNCHANGED listVars
    <3>1. UNCHANGED <<heap, listOpen, listPc, listFn, todo, fields, new, list, room, failed, wanted>>
      BY <2>2 DEF listVars
    <3>2. UNCHANGED <<Listing!BlocksOf(list), Listing!Of(Len(list) + 1, new), Listing!Wanted(todo)>>
      BY <3>1 DEF Listing!BlocksOf, Listing!Of, Listing!Wanted
    <3> QED
      BY <3>1, <3>2 DEF ListInv, ListShape, ListPlaceInv, EntryInv, HeapInv, CountInv, RoomInv, LeftInv
  <2> QED
    BY <2>1, <2>2, ListStep
<1> QED
  BY <1>1, <1>2, PTL DEF LibSpec

\* A list that is returned has all that belongs into it and owns all that is allocated;
\* a call that fails leaves nothing but what the two known calls lose; and no array is
\* written behind its end.
THEOREM LibListsOwned == LibSpec => []ListsOwned
BY LibListInv, ListPromise, PTL

LEMMA Least ==
  ASSUME NEW S \in SUBSET Nat, S # {}
  PROVE  \E x \in S : \A y \in S : x <= y
<1>1. PICK x \in S : \A y \in S : ~ (<<y, x>> \in OpToRel(<, Nat))
  BY NatLessThanWellFounded, WFMin
<1>2. ASSUME NEW y \in S PROVE x <= y
  <2>1. x \in Nat /\ y \in Nat /\ <<y, x>> \in Nat \X Nat
    OBVIOUS
  <2>2. ~(y < x)
    BY <1>1, <2>1 DEF OpToRel
  <2> QED
    BY <2>1, <2>2
<1> QED
  BY <1>2

-----------------------------------------------------------------------------
(***************************************************************************)
(* xpoll: binary search.                                                   *)
(***************************************************************************)
EntrySet == [fd : Fds, events : Asks, revents : SUBSET (Events \cup {"POLLNVAL"})]
Sorted(es) == \A i, j \in DOMAIN es : i < j => es[i].fd < es[j].fd

\* A step of binsearch(): what it returns for a range, given what it returns for others.
SearchStep(es, fd, s, range) ==
  IF es[Mid(range) + 1].fd = fd THEN Mid(range)
  ELSE IF range[1] < range[2]
       THEN s[IF es[Mid(range) + 1].fd < fd THEN Upper(range) ELSE Lower(range)]
  ELSE IF es[Mid(range) + 1].fd < fd THEN -(range[1] + 1) - 1 ELSE -range[1] - 1
IsSearch(s, es, fd) == s = [range \in Ranges(Len(es)) |-> SearchStep(es, fd, s, range)]

LEMMA MidIs ==
  ASSUME NEW n \in Nat, NEW range \in Ranges(n), range[1] < range[2]
  PROVE  /\ Mid(range) \in Nat /\ range[1] <= Mid(range) /\ Mid(range) < range[2]
         /\ Upper(range) \in Ranges(n) /\ Lower(range) \in Ranges(n)
         /\ Upper(range)[2] - Upper(range)[1] < range[2] - range[1]
         /\ Lower(range)[2] - Lower(range)[1] < range[2] - range[1]
<1>1. range[1] \in 0..n /\ range[2] \in -1..n
  BY DEF Ranges
<1>2. Mid(range) = (range[1] + range[2]) \div 2
  BY DEF Mid
<1>3. Mid(range) \in Nat /\ range[1] <= Mid(range) /\ Mid(range) < range[2]
  BY <1>1, <1>2
<1>4. /\ Upper(range)[1] = Mid(range) + 1 /\ Upper(range)[2] = range[2]
      /\ Lower(range)[1] = range[1] /\ Lower(range)[2] = Mid(range) - 1
      /\ Upper(range) = <<Mid(range) + 1, range[2]>> /\ Lower(range) = <<range[1], Mid(range) - 1>>
  BY DEF Upper, Lower
<1>5. Mid(range) + 1 \in 0..n /\ Mid(range) - 1 \in -1..n
  BY <1>1, <1>3
<1> QED
  BY <1>1, <1>3, <1>4, <1>5 DEF Ranges

\* The search is defined on ranges of each length, else there is a least length for
\* which it is not, and then what it returns for shorter ones defines it.
LEMMA SearchExists ==
  ASSUME NEW es, NEW fd, Len(es) \in Nat
  PROVE  \E s : IsSearch(s, es, fd)
<1> DEFINE n == Len(es)
           D == Ranges(n)
           Upto(k) == {range \in D : range[2] - range[1] <= k}
           P(k) == \E f : \A range \in Upto(k) : f[range] = SearchStep(es, fd, f, range)
           B == {k \in Nat : ~P(k)}
<1>0. n \in Nat /\ \A range \in D : range[1] \in 0..n /\ range[2] \in -1..n
  BY DEF Ranges
<1>00. \A k, range : range \in Upto(k) <=> range \in D /\ range[2] - range[1] <= k
  OBVIOUS
<1> HIDE DEF Upto, D
<1>1. B = {}
  <2> SUFFICES ASSUME B # {} PROVE FALSE
    OBVIOUS
  <2>1. PICK k \in B : \A j \in B : k <= j
    BY Least
  <2>2. CASE k = 0
    <3> DEFINE f == [range \in D |-> SearchStep(es, fd, <<>>, range)]
    <3>1. ASSUME NEW range \in Upto(0)
          PROVE  f[range] = SearchStep(es, fd, f, range)
      <4>1. range \in D /\ ~(range[1] < range[2])
        BY <1>0, <1>00
      <4>2. f[range] = SearchStep(es, fd, <<>>, range)
        BY <4>1
      <4> HIDE DEF f
      <4> QED
        BY <4>1, <4>2 DEF SearchStep
    <3>2. P(0)
      BY <3>1
    <3> QED
      BY <2>1, <2>2, <3>2
  <2>3. CASE k # 0
    <3>1. k \in Nat /\ k - 1 \in Nat /\ ~(k <= k - 1)
      BY <2>1, <2>3
    <3>2. P(k - 1)
      BY <2>1, <3>1
    <3>3. PICK f : \A range \in Upto(k - 1) : f[range] = SearchStep(es, fd, f, range)
      BY <3>2
    <3> DEFINE g == [range \in D |-> IF range[2] - range[1] <= k - 1 THEN f[range]
                                     ELSE SearchStep(es, fd, f, range)]
    <3>4. \A range \in Upto(k - 1) : range \in D /\ g[range] = f[range]
      BY <1>00
    <3>5. ASSUME NEW range \in Upto(k)
          PROVE  SearchStep(es, fd, g, range) = SearchStep(es, fd, f, range)
      <4>0. range \in D /\ range[1] \in Int /\ range[2] \in Int /\ range[2] - range[1] <= k
        BY <1>0, <1>00
      <4>1. CASE range[1] < range[2]
        <5>1. Upper(range) \in Upto(k - 1) /\ Lower(range) \in Upto(k - 1)
          <6>1. /\ Upper(range) \in D /\ Lower(range) \in D
                /\ Upper(range)[2] - Upper(range)[1] < range[2] - range[1]
                /\ Lower(range)[2] - Lower(range)[1] < range[2] - range[1]
            BY <1>0, <4>0, <4>1, MidIs DEF D
          <6>2. /\ Upper(range)[1] \in Int /\ Upper(range)[2] \in Int
                /\ Lower(range)[1] \in Int /\ Lower(range)[2] \in Int
            BY <6>1, <1>0
          <6>3. /\ Upper(range)[2] - Upper(range)[1] <= k - 1
                /\ Lower(range)[2] - Lower(range)[1] <= k - 1
            <7>1. \A a, b, c, d \in Int : a - b < c - d /\ c - d <= k => a - b <= k - 1
              BY <3>1
            <7> QED
              BY <4>0, <6>1, <6>2, <7>1
          <6> QED
            BY <1>00, <6>1, <6>3
        <5>2. g[Upper(range)] = f[Upper(range)] /\ g[Lower(range)] = f[Lower(range)]
          BY <3>4, <5>1
        <5> HIDE DEF g
        <5> QED
          BY <5>2 DEF SearchStep
      <4>2. CASE ~(range[1] < range[2])
        <5> HIDE DEF g
        <5> QED
          BY <4>2 DEF SearchStep
      <4> QED
        BY <4>1, <4>2
    <3>6. ASSUME NEW range \in Upto(k)
          PROVE  g[range] = SearchStep(es, fd, g, range)
      <4>1. CASE range \in Upto(k - 1)
        <5>1. g[range] = f[range] /\ f[range] = SearchStep(es, fd, f, range)
          BY <3>3, <3>4, <4>1
        <5> HIDE DEF g
        <5> QED
          BY <3>5, <5>1
      <4>2. CASE range \notin Upto(k - 1)
        <5>1. g[range] = SearchStep(es, fd, f, range)
          BY <1>00, <4>2
        <5> HIDE DEF g
        <5> QED
          BY <3>5, <5>1
      <4> QED
        BY <4>1, <4>2
    <3> HIDE DEF g
    <3>7. P(k)
      BY <3>6
    <3> QED
      BY <2>1, <3>7
  <2> QED
    BY <2>2, <2>3
<1>2. P(n)
  BY <1>0, <1>1
<1>3. PICK f : \A range \in Upto(n) : f[range] = SearchStep(es, fd, f, range)
  BY <1>2
<1>4. \A range \in D : f[range] = SearchStep(es, fd, f, range)
  <2>1. \A range \in D : range[2] - range[1] <= n
    BY <1>0
  <2> QED
    BY <1>00, <1>3, <2>1
<1> DEFINE g == [range \in D |-> f[range]]
<1>5. \A range \in D : g[range] = SearchStep(es, fd, g, range)
  <2> SUFFICES ASSUME NEW range \in D
               PROVE  g[range] = SearchStep(es, fd, g, range)
    OBVIOUS
  <2>1. g[range] = f[range] /\ f[range] = SearchStep(es, fd, f, range)
    BY <1>4
  <2>2. range[1] < range[2] => /\ g[Upper(range)] = f[Upper(range)]
                               /\ g[Lower(range)] = f[Lower(range)]
    BY <1>0, MidIs DEF D
  <2> HIDE DEF g
  <2> QED
    BY <2>1, <2>2 DEF SearchStep
<1>6. g = [range \in D |-> g[range]]
  OBVIOUS
<1> HIDE DEF g
<1>7. IsSearch(g, es, fd)
  BY <1>5, <1>6 DEF IsSearch, D
<1> QED
  BY <1>7

LEMMA BinSearchSteps ==
  ASSUME NEW es, NEW fd, es # <<>>, Len(es) \in Nat
  PROVE  \E s : /\ \A range \in Ranges(Len(es)) : s[range] = SearchStep(es, fd, s, range)
                /\ BinSearch(es, fd) = s[<<0, Len(es) - 1>>]
<1>0. \E s : IsSearch(s, es, fd)
  BY SearchExists
<1>1. \E s : IsSearch(s, es, fd) /\ BinSearch(es, fd) = s[<<0, Len(es) - 1>>]
  BY <1>0 DEF BinSearch, IsSearch, SearchStep
<1>2. PICK s : IsSearch(s, es, fd) /\ BinSearch(es, fd) = s[<<0, Len(es) - 1>>]
  BY <1>1
<1>3. s = [range \in Ranges(Len(es)) |-> SearchStep(es, fd, s, range)]
  BY <1>2 DEF IsSearch
<1>4. \A range \in Ranges(Len(es)) : s[range] = SearchStep(es, fd, s, range)
  BY <1>3
<1> QED
  BY <1>2, <1>4

\* In a sorted array binsearch() finds the descriptor, or where it belongs.
Found(es, fd, pos) ==
  \/ pos \in 0..(Len(es) - 1) /\ es[pos + 1].fd = fd
  \/ /\ pos \in Int /\ -pos \in 1..(Len(es) + 1)
     /\ \A i \in DOMAIN es : (i < -pos => es[i].fd < fd) /\ (i >= -pos => es[i].fd > fd)

\* binsearch() finds the entry of a descriptor or the place where it belongs, in every
\* sorted array.
THEOREM BinSearchFinds ==
  ASSUME NEW es \in Seq(EntrySet), Sorted(es), NEW fd \in Fds
  PROVE  Found(es, fd, BinSearch(es, fd))
<1> DEFINE n == Len(es)
<1>1. /\ n \in Nat /\ DOMAIN es = 1..n /\ fd \in Int /\ \A i \in 1..n : es[i].fd \in Int
      /\ \A i, j \in 1..n : i < j => es[i].fd < es[j].fd
  <2>1. n \in Nat /\ DOMAIN es = 1..n /\ \A i \in 1..n : es[i] \in EntrySet
    OBVIOUS
  <2>2. \A e \in EntrySet : e.fd \in Fds
    BY DEF EntrySet
  <2> QED
    BY <2>1, <2>2, XpollAssumption DEF Sorted
<1>2. CASE es = <<>>
  <2>1. BinSearch(es, fd) = -1
    BY <1>2 DEF BinSearch
  <2>2. n = 0
    BY <1>2
  <2>3. \A p \in Int : p + 1 = 0 => -p = 1
    OBVIOUS
  <2>4. BinSearch(es, fd) \in Int /\ -BinSearch(es, fd) = 1 /\ DOMAIN es = {}
    BY <1>2, <2>1, <2>3
  <2> QED
    BY <2>2, <2>4 DEF Found
<1>3. CASE es # <<>>
  <2>1. PICK s : /\ \A range \in Ranges(n) : s[range] = SearchStep(es, fd, s, range)
                 /\ BinSearch(es, fd) = s[<<0, n - 1>>]
    BY <1>1, <1>3, BinSearchSteps
  <2>2. n > 0
    BY <1>1, <1>3
  <2> DEFINE Bounds(l, h) == /\ l \in 0..(n - 1) /\ h \in -1..(n - 1) /\ l <= h + 1
                             /\ \A i \in 1..n : (i <= l => es[i].fd < fd) /\ (i > h + 1 => es[i].fd > fd)
             Bad == {k \in Nat : \E l, h \in Int : /\ Bounds(l, h) /\ k = h + 1 - l
                                                   /\ ~Found(es, fd, s[<<l, h>>])}
  <2> HIDE DEF Bounds
  <2>7. ASSUME NEW l \in Int, NEW h \in Int, Bounds(l, h), ~Found(es, fd, s[<<l, h>>])
        PROVE  h + 1 - l \in Bad
    <3>1. h + 1 - l \in Nat
      BY <2>7 DEF Bounds
    <3> QED
      BY <2>7, <3>1
  <2> USE DEF Bounds
  <2>3. Bad = {}
    <3> SUFFICES ASSUME Bad # {} PROVE FALSE
      OBVIOUS
    <3>1. PICK k \in Bad : \A j \in Bad : k <= j
      BY Least
    <3>2. PICK l \in Int, h \in Int : /\ Bounds(l, h) /\ k = h + 1 - l
                                      /\ ~Found(es, fd, s[<<l, h>>])
      BY <3>1
    <3> DEFINE range == <<l, h>>
               m == Mid(range)
    <3>3. range \in Ranges(n) /\ range[1] = l /\ range[2] = h
      BY <1>1, <3>2 DEF Ranges
    <3>4. s[range] = SearchStep(es, fd, s, range)
      BY <2>1, <3>3
    <3> HIDE DEF Bad
    <3>5. CASE l < h
      <4>1. m \in Nat /\ l <= m /\ m < h
        BY <1>1, <3>3, <3>5, MidIs
      <4>2. m + 1 \in 1..n /\ m \in 0..(n - 1)
        BY <1>1, <3>2, <4>1
      <4>3. es[m + 1].fd \in Int
        BY <1>1, <4>2
      <4>4. CASE es[m + 1].fd = fd
        <5>1. s[range] = m
          BY <3>3, <3>4, <4>4 DEF SearchStep
        <5> QED
          BY <3>2, <4>2, <4>4, <5>1 DEF Found
      <4>5. CASE es[m + 1].fd < fd
        <5>1. s[range] = s[<<m + 1, h>>]
          BY <3>3, <3>4, <3>5, <4>3, <4>5, <1>1 DEF SearchStep, Upper
        <5>2. Bounds(m + 1, h)
          <6>1. \A i \in 1..n : i <= m + 1 => es[i].fd < fd
            <7> TAKE i \in 1..n
            <7>1. i < m + 1 => es[i].fd < es[m + 1].fd
              BY <1>1, <4>2
            <7>2. es[i].fd \in Int
              BY <1>1
            <7> QED
              BY <1>1, <4>1, <4>3, <4>5, <7>1, <7>2
          <6>2. m + 1 \in 0..(n - 1) /\ h \in -1..(n - 1) /\ m + 1 <= h + 1
            BY <1>1, <3>2, <4>1, <4>2
          <6>3. \A i \in 1..n : i > h + 1 => es[i].fd > fd
            BY <3>2
          <6> QED
            BY <6>1, <6>2, <6>3
        <5>3. h + 1 - (m + 1) \in Bad
          <6>1. m + 1 \in Int /\ ~Found(es, fd, s[<<m + 1, h>>])
            BY <3>2, <4>1, <5>1
          <6> HIDE DEF Bounds
          <6> QED
            BY <3>2, <5>2, <6>1, <2>7
        <5>4. k <= h + 1 - (m + 1)
          BY <3>1, <5>3
        <5> QED
          BY <3>2, <4>1, <5>4
      <4>6. CASE es[m + 1].fd > fd
        <5>1. s[range] = s[<<l, m - 1>>]
          BY <3>3, <3>4, <3>5, <4>3, <4>6, <1>1 DEF SearchStep, Lower
        <5>2. Bounds(l, m - 1)
          <6>1. \A i \in 1..n : i > m - 1 + 1 => es[i].fd > fd
            <7> TAKE i \in 1..n
            <7>1. i > m + 1 => es[m + 1].fd < es[i].fd
              BY <1>1, <4>2
            <7>2. es[i].fd \in Int
              BY <1>1
            <7> QED
              BY <1>1, <4>1, <4>3, <4>6, <7>1, <7>2
          <6>2. l \in 0..(n - 1) /\ m - 1 \in -1..(n - 1) /\ l <= m - 1 + 1
            BY <1>1, <3>2, <4>1, <4>2
          <6>3. \A i \in 1..n : i <= l => es[i].fd < fd
            BY <3>2
          <6> QED
            BY <6>1, <6>2, <6>3
        <5>3. m - 1 + 1 - l \in Bad
          <6>1. m - 1 \in Int /\ ~Found(es, fd, s[<<l, m - 1>>])
            BY <3>2, <4>1, <5>1
          <6> HIDE DEF Bounds
          <6> QED
            BY <3>2, <5>2, <6>1, <2>7
        <5>4. k <= m - 1 + 1 - l
          BY <3>1, <5>3
        <5> QED
          BY <3>2, <4>1, <5>4
      <4> QED
        BY <1>1, <4>3, <4>4, <4>5, <4>6
    <3>6. CASE ~(l < h)
      <4>1. m = l
        BY <3>3, <3>6 DEF Mid
      <4>2. l + 1 \in 1..n /\ es[l + 1].fd \in Int
        BY <1>1, <3>2
      <4>3. s[range] = IF es[l + 1].fd = fd THEN l
                       ELSE IF es[l + 1].fd < fd THEN -(l + 1) - 1 ELSE -l - 1
        BY <3>3, <3>4, <3>6, <4>1 DEF SearchStep
      <4>4. CASE es[l + 1].fd = fd
        BY <3>2, <4>2, <4>3, <4>4 DEF Found
      <4>5. CASE es[l + 1].fd < fd
        <5>1. s[range] = -(l + 1) - 1 /\ -(-(l + 1) - 1) = l + 2
          <6>1. es[l + 1].fd # fd
            BY <4>2, <4>5, <1>1
          <6>2. s[range] = -(l + 1) - 1
            BY <4>3, <4>5, <6>1
          <6> QED
            BY <3>2, <6>2
        <5>2. \A i \in 1..n : (i < l + 2 => es[i].fd < fd) /\ (i >= l + 2 => es[i].fd > fd)
          <6> TAKE i \in 1..n
          <6>1. i <= l + 1 => es[i].fd < fd
            BY <3>2, <4>5, <4>2
          <6>2. i >= l + 2 => i > h + 1
            BY <3>2, <3>6, <1>1
          <6> QED
            BY <3>2, <6>1, <6>2
        <5>3. l + 2 \in 1..(n + 1)
          BY <4>2, <1>1, <3>2
        <5> QED
          BY <1>1, <3>2, <5>1, <5>2, <5>3 DEF Found
      <4>6. CASE es[l + 1].fd > fd
        <5>1. s[range] = -l - 1 /\ -(-l - 1) = l + 1
          <6>1. es[l + 1].fd # fd /\ ~(es[l + 1].fd < fd)
            BY <4>2, <4>6, <1>1
          <6>2. s[range] = -l - 1
            BY <4>3, <6>1
          <6> QED
            BY <3>2, <6>2
        <5>2. \A i \in 1..n : (i < l + 1 => es[i].fd < fd) /\ (i >= l + 1 => es[i].fd > fd)
          <6> TAKE i \in 1..n
          <6>1. i < l + 1 => es[i].fd < fd
            BY <3>2
          <6>2. i > l + 1 => es[l + 1].fd < es[i].fd
            BY <1>1, <4>2
          <6>3. es[i].fd \in Int
            BY <1>1
          <6> QED
            BY <1>1, <3>2, <4>2, <4>6, <6>1, <6>2, <6>3
        <5>3. l + 1 \in 1..(n + 1)
          BY <4>2, <1>1, <3>2
        <5> QED
          BY <1>1, <3>2, <5>1, <5>2, <5>3 DEF Found
      <4> QED
        BY <1>1, <4>2, <4>4, <4>5, <4>6
    <3> QED
      BY <3>2, <3>5, <3>6
  <2>4. Bounds(0, n - 1)
    BY <1>1, <2>2
  <2>5. n - 1 + 1 - 0 = n
    BY <1>1
  <2> HIDE DEF Bounds
  <2>6. Found(es, fd, s[<<0, n - 1>>])
    <3>1. n - 1 \in Int
      BY <1>1
    <3>2. \A l, h \in Int : Bounds(l, h) /\ ~Found(es, fd, s[<<l, h>>]) => h + 1 - l \in Bad
      BY <2>7
    <3> HIDE DEF Bad
    <3>3. \A l, h \in Int : Bounds(l, h) => Found(es, fd, s[<<l, h>>])
      BY <2>3, <3>2
    <3> DEFINE h == n - 1
    <3>4. h \in Int /\ 0 \in Int /\ Bounds(0, h)
      BY <2>4, <3>1
    <3> HIDE DEF h
    <3>5. Found(es, fd, s[<<0, h>>])
      BY <3>3, <3>4
    <3> QED
      BY <3>5 DEF h
  <2> QED
    BY <2>1, <2>6
<1> QED
  BY <1>2, <1>3

-----------------------------------------------------------------------------
(***************************************************************************)
(* xpoll: the array.                                                       *)
(***************************************************************************)
\* InsertAt() and RemoveAt() of SequencesExt, element by element.
LEMMA InsertIs ==
  ASSUME NEW S, NEW s \in Seq(S), NEW e \in S, NEW q \in 1..(Len(s) + 1)
  PROVE  /\ InsertAt(s, q, e) \in Seq(S) /\ Len(InsertAt(s, q, e)) = Len(s) + 1
         /\ \A k \in 1..(Len(s) + 1) :
              InsertAt(s, q, e)[k] = IF k < q THEN s[k] ELSE IF k = q THEN e ELSE s[k - 1]
<1> DEFINE n == Len(s)
           a == SubSeq(s, 1, q - 1)
           b == <<e>>
           c == SubSeq(s, q, n)
<1>1. n \in Nat /\ q \in Int /\ \A i \in 1..n : s[i] \in S
  OBVIOUS
<1>2. a \in Seq(S) /\ Len(a) = q - 1 /\ \A i \in 1..(q - 1) : a[i] = s[i]
  <2>1. \A i \in 1..(q - 1) : s[i] \in S
    BY <1>1
  <2>2. q - 1 \in Int /\ 1 \in Int
    BY <1>1
  <2>3. /\ a \in Seq(S) /\ Len(a) = IF 1 <= q - 1 THEN q - 1 - 1 + 1 ELSE 0
        /\ \A i \in 1..(q - 1 - 1 + 1) : a[i] = s[1 + i - 1]
    BY <2>1, <2>2, SubSeqProperties
  <2> HIDE DEF a
  <2> QED
    BY <2>3, <1>1
<1>3. c \in Seq(S) /\ Len(c) = n - q + 1 /\ \A i \in 1..(n - q + 1) : c[i] = s[q + i - 1]
  <2>1. \A i \in q..n : s[i] \in S
    BY <1>1
  <2>3. /\ c \in Seq(S) /\ Len(c) = IF q <= n THEN n - q + 1 ELSE 0
        /\ \A i \in 1..(n - q + 1) : c[i] = s[q + i - 1]
    BY <1>1, <2>1, SubSeqProperties
  <2> HIDE DEF c
  <2> QED
    BY <2>3, <1>1
<1>4. b \in Seq(S) /\ Len(b) = 1 /\ b[1] = e
  OBVIOUS
<1>5. InsertAt(s, q, e) = (a \o b) \o c
  BY DEF InsertAt
<1> HIDE DEF a, b, c
<1> DEFINE ab == a \o b
           t == ab \o c
<1>6. ab \in Seq(S) /\ Len(ab) = q /\ \A i \in 1..q : ab[i] = IF i < q THEN s[i] ELSE e
  <2>1. /\ ab \in Seq(S) /\ Len(ab) = Len(a) + Len(b)
        /\ \A i \in 1..(Len(a) + Len(b)) : ab[i] = IF i <= Len(a) THEN a[i] ELSE b[i - Len(a)]
    BY <1>2, <1>4, ConcatProperties
  <2> HIDE DEF ab
  <2>2. Len(a) + Len(b) = q /\ Len(a) = q - 1
    BY <1>1, <1>2, <1>4
  <2>3. ASSUME NEW i \in 1..q PROVE ab[i] = IF i < q THEN s[i] ELSE e
    <3>1. ab[i] = IF i <= q - 1 THEN a[i] ELSE b[i - (q - 1)]
      BY <2>1, <2>2
    <3> QED
      BY <3>1, <1>1, <1>2, <1>4
  <2> QED
    BY <2>1, <2>2, <2>3
<1> HIDE DEF ab
<1>7. /\ t \in Seq(S) /\ Len(t) = Len(ab) + Len(c)
      /\ \A i \in 1..(Len(ab) + Len(c)) : t[i] = IF i <= Len(ab) THEN ab[i] ELSE c[i - Len(ab)]
  BY <1>3, <1>6, ConcatProperties
<1> HIDE DEF t
<1>70. Len(ab) = q /\ Len(ab) + Len(c) = n + 1
  BY <1>1, <1>3, <1>6
<1>8. t \in Seq(S) /\ Len(t) = n + 1
  BY <1>7, <1>70
<1>9. ASSUME NEW k \in 1..(n + 1)
      PROVE  t[k] = IF k < q THEN s[k] ELSE IF k = q THEN e ELSE s[k - 1]
  <2>1. t[k] = IF k <= q THEN ab[k] ELSE c[k - q]
    BY <1>7, <1>70
  <2>2. CASE k <= q
    BY <1>1, <1>6, <2>1, <2>2
  <2>3. CASE ~(k <= q)
    <3>1. k - q \in 1..(n - q + 1) /\ q + (k - q) - 1 = k - 1
      BY <1>1, <2>3
    <3> QED
      BY <1>1, <1>3, <2>1, <2>3, <3>1
  <2> QED
    BY <2>2, <2>3
<1>10. InsertAt(s, q, e) = t
  BY <1>5 DEF t, ab
<1> QED
  BY <1>8, <1>9, <1>10

LEMMA RemoveIs ==
  ASSUME NEW S, NEW s \in Seq(S), NEW q \in 1..Len(s)
  PROVE  /\ RemoveAt(s, q) \in Seq(S) /\ Len(RemoveAt(s, q)) = Len(s) - 1
         /\ \A k \in 1..(Len(s) - 1) : RemoveAt(s, q)[k] = IF k < q THEN s[k] ELSE s[k + 1]
<1> DEFINE n == Len(s)
           a == SubSeq(s, 1, q - 1)
           c == SubSeq(s, q + 1, n)
           t == a \o c
<1>1. n \in Nat /\ q \in Int /\ \A i \in 1..n : s[i] \in S
  OBVIOUS
<1>2. a \in Seq(S) /\ Len(a) = q - 1 /\ \A i \in 1..(q - 1) : a[i] = s[i]
  <2>1. \A i \in 1..(q - 1) : s[i] \in S
    BY <1>1
  <2>2. q - 1 \in Int /\ 1 \in Int
    BY <1>1
  <2>3. /\ a \in Seq(S) /\ Len(a) = IF 1 <= q - 1 THEN q - 1 - 1 + 1 ELSE 0
        /\ \A i \in 1..(q - 1 - 1 + 1) : a[i] = s[1 + i - 1]
    BY <2>1, <2>2, SubSeqProperties
  <2> HIDE DEF a
  <2> QED
    BY <2>3, <1>1
<1>3. c \in Seq(S) /\ Len(c) = n - q /\ \A i \in 1..(n - q) : c[i] = s[q + i]
  <2>1. (\A i \in (q + 1)..n : s[i] \in S) /\ q + 1 \in Int
    BY <1>1
  <2>3. /\ c \in Seq(S) /\ Len(c) = IF q + 1 <= n THEN n - (q + 1) + 1 ELSE 0
        /\ \A i \in 1..(n - (q + 1) + 1) : c[i] = s[q + 1 + i - 1]
    BY <1>1, <2>1, SubSeqProperties
  <2> HIDE DEF c
  <2> QED
    BY <2>3, <1>1
<1>5. RemoveAt(s, q) = t
  BY DEF RemoveAt
<1> HIDE DEF a, c
<1>7. /\ t \in Seq(S) /\ Len(t) = Len(a) + Len(c)
      /\ \A i \in 1..(Len(a) + Len(c)) : t[i] = IF i <= Len(a) THEN a[i] ELSE c[i - Len(a)]
  BY <1>2, <1>3, ConcatProperties
<1> HIDE DEF t
<1>70. Len(a) = q - 1 /\ Len(a) + Len(c) = n - 1
  BY <1>1, <1>2, <1>3
<1>8. t \in Seq(S) /\ Len(t) = n - 1
  BY <1>7, <1>70
<1>9. ASSUME NEW k \in 1..(n - 1)
      PROVE  t[k] = IF k < q THEN s[k] ELSE s[k + 1]
  <2>1. t[k] = IF k <= q - 1 THEN a[k] ELSE c[k - (q - 1)]
    BY <1>7, <1>70
  <2>2. CASE k < q
    BY <1>1, <1>2, <2>1, <2>2
  <2>3. CASE ~(k < q)
    <3>1. k - (q - 1) \in 1..(n - q) /\ q + (k - (q - 1)) = k + 1
      BY <1>1, <2>3
    <3> QED
      BY <1>1, <1>3, <2>1, <2>3, <3>1
  <2> QED
    BY <2>2, <2>3
<1> QED
  BY <1>5, <1>8, <1>9

\* A set of descriptors: a sorted array of entries with what they may have found.
EntryOK(e) == e.revents \subseteq e.events \cup {"POLLNVAL"}
Good(es) == es \in Seq(EntrySet) /\ Sorted(es) /\ \A i \in DOMAIN es : EntryOK(es[i])

LEMMA GoodIs ==
  ASSUME NEW es, Good(es)
  PROVE  /\ Len(es) \in Nat /\ DOMAIN es = 1..Len(es)
         /\ \A i \in 1..Len(es) : /\ es[i] \in EntrySet /\ es[i].fd \in Fds /\ es[i].fd \in Int
                                  /\ es[i].events \in Asks /\ EntryOK(es[i])
         /\ \A i, j \in 1..Len(es) : i < j => es[i].fd < es[j].fd
         /\ \A i, j \in 1..Len(es) : es[i].fd = es[j].fd => i = j
<1>1. es \in Seq(EntrySet)
  BY DEF Good
<1>2. Len(es) \in Nat /\ DOMAIN es = 1..Len(es) /\ \A i \in 1..Len(es) : es[i] \in EntrySet
  BY <1>1
<1>3. \A e \in EntrySet : e.fd \in Fds /\ e.fd \in Int /\ e.events \in Asks
  BY XpollAssumption DEF EntrySet
<1>4. \A i, j \in 1..Len(es) : i < j => es[i].fd < es[j].fd
  BY <1>2 DEF Good, Sorted
<1>5. ASSUME NEW i \in 1..Len(es), NEW j \in 1..Len(es), es[i].fd = es[j].fd
      PROVE  i = j
  <2>1. es[i].fd \in Int /\ es[j].fd \in Int
    BY <1>2, <1>3
  <2>2. ~(i < j) /\ ~(j < i)
    BY <1>4, <1>5, <2>1
  <2> QED
    BY <2>2, <1>2
<1>6. \A i \in 1..Len(es) : EntryOK(es[i])
  BY <1>2 DEF Good
<1> QED
  BY <1>2, <1>3, <1>4, <1>5, <1>6

\* The map that an array stands for.
FdsOf(es) == {es[i].fd : i \in DOMAIN es}
MapOf(es) == [fd \in FdsOf(es) |-> es[CHOOSE i \in DOMAIN es : es[i].fd = fd].events]

LEMMA MapIs ==
  ASSUME NEW es, Good(es)
  PROVE  /\ DOMAIN MapOf(es) = FdsOf(es) /\ FdsOf(es) \subseteq Fds
         /\ \A i \in DOMAIN es : es[i].fd \in FdsOf(es) /\ MapOf(es)[es[i].fd] = es[i].events
<1>1. DOMAIN MapOf(es) = FdsOf(es)
  BY DEF MapOf
<1>2. FdsOf(es) \subseteq Fds
  BY GoodIs DEF FdsOf
<1>3. ASSUME NEW i \in DOMAIN es
      PROVE  es[i].fd \in FdsOf(es) /\ MapOf(es)[es[i].fd] = es[i].events
  <2>1. es[i].fd \in FdsOf(es)
    BY DEF FdsOf
  <2> DEFINE c == CHOOSE j \in DOMAIN es : es[j].fd = es[i].fd
  <2>2. c \in DOMAIN es /\ es[c].fd = es[i].fd
    OBVIOUS
  <2>3. MapOf(es)[es[i].fd] = es[c].events
    BY <2>1 DEF MapOf
  <2> HIDE DEF c
  <2>4. c = i
    BY <2>2, GoodIs
  <2> QED
    BY <2>1, <2>3, <2>4
<1> QED
  BY <1>1, <1>2, <1>3

\* A map is known by its domain and what it has for each descriptor.
LEMMA MapsTo ==
  ASSUME NEW es, Good(es), NEW D, NEW g,
         FdsOf(es) = D, \A i \in DOMAIN es : es[i].events = g[es[i].fd]
  PROVE  MapOf(es) = [fd \in D |-> g[fd]]
<1>1. \A fd \in D : MapOf(es)[fd] = g[fd]
  <2> SUFFICES ASSUME NEW fd \in D PROVE MapOf(es)[fd] = g[fd]
    OBVIOUS
  <2>1. PICK i \in DOMAIN es : es[i].fd = fd
    BY DEF FdsOf
  <2> QED
    BY <2>1, MapIs
<1>2. MapOf(es) = [fd \in D |-> MapOf(es)[fd]]
  BY DEF MapOf
<1> QED
  BY <1>1, <1>2

\* Adding: the array has the new entry and the others.
AddedTo(es, fd, events) ==
  IF BinSearch(es, fd) < 0 THEN InsertAt(es, -BinSearch(es, fd), Entry(fd, events))
                           ELSE ReplaceAt(es, BinSearch(es, fd) + 1, Entry(fd, events))

LEMMA EntryIs ==
  ASSUME NEW fd \in Fds, NEW events \in Asks
  PROVE  /\ Entry(fd, events) \in EntrySet /\ EntryOK(Entry(fd, events))
         /\ Entry(fd, events).fd = fd /\ Entry(fd, events).events = events
BY DEF Entry, EntrySet, EntryOK

LEMMA AddIs ==
  ASSUME NEW es, Good(es), NEW fd \in Fds, NEW events \in Asks
  PROVE  LET t == AddedTo(es, fd, events)
         IN  /\ Good(t) /\ Len(t) <= Len(es) + 1
             /\ \A k \in DOMAIN t : \/ t[k] = Entry(fd, events)
                                    \/ \E i \in DOMAIN es : t[k] = es[i] /\ es[i].fd # fd
             /\ \E k \in DOMAIN t : t[k] = Entry(fd, events)
             /\ \A i \in DOMAIN es : es[i].fd # fd => \E k \in DOMAIN t : t[k] = es[i]
<1> DEFINE n == Len(es)
           e == Entry(fd, events)
           pos == BinSearch(es, fd)
           t == AddedTo(es, fd, events)
<1>1. /\ es \in Seq(EntrySet) /\ Sorted(es) /\ n \in Nat /\ DOMAIN es = 1..n
      /\ \A i \in 1..n : es[i].fd \in Int /\ EntryOK(es[i])
      /\ \A i, j \in 1..n : i < j => es[i].fd < es[j].fd
      /\ \A i, j \in 1..n : es[i].fd = es[j].fd => i = j
  BY GoodIs DEF Good
<1>2. e \in EntrySet /\ EntryOK(e) /\ e.fd = fd /\ fd \in Int
  BY EntryIs, XpollAssumption
<1>3. Found(es, fd, pos)
  BY <1>1, BinSearchFinds
<1>4. t = IF pos < 0 THEN InsertAt(es, -pos, e) ELSE ReplaceAt(es, pos + 1, e)
  BY DEF AddedTo
<1> HIDE DEF e, pos, t
<1>5. CASE pos \in 0..(n - 1) /\ es[pos + 1].fd = fd
  <2> DEFINE q == pos + 1
  <2>1. q \in 1..n /\ ~(pos < 0) /\ es[q].fd = fd
    BY <1>1, <1>5
  <2> HIDE DEF q
  <2>2. t = [es EXCEPT ![q] = e]
    BY <1>4, <2>1 DEF ReplaceAt, q
  <2>3. t \in Seq(EntrySet) /\ Len(t) = n /\ DOMAIN t = 1..n
    BY <1>1, <1>2, <2>1, <2>2
  <2>4. \A k \in 1..n : t[k] = IF k = q THEN e ELSE es[k]
    BY <1>1, <2>2
  <2>5. \A k \in 1..n : t[k].fd = es[k].fd /\ EntryOK(t[k])
    BY <1>1, <1>2, <2>1, <2>4
  <2>6. Good(t)
    BY <1>1, <2>3, <2>5 DEF Good, Sorted
  <2>7. \A k \in DOMAIN t : t[k] = e \/ \E i \in DOMAIN es : t[k] = es[i] /\ es[i].fd # fd
    BY <1>1, <2>1, <2>3, <2>4
  <2>8. \E k \in DOMAIN t : t[k] = e
    BY <2>1, <2>3, <2>4
  <2>9. \A i \in DOMAIN es : es[i].fd # fd => \E k \in DOMAIN t : t[k] = es[i]
    BY <1>1, <2>1, <2>3, <2>4
  <2> QED
    BY <1>1, <2>3, <2>6, <2>7, <2>8, <2>9 DEF t, e
<1>6. CASE /\ pos \in Int /\ -pos \in 1..(n + 1)
           /\ \A i \in DOMAIN es : (i < -pos => es[i].fd < fd) /\ (i >= -pos => es[i].fd > fd)
  <2> DEFINE q == -pos
  <2>1. q \in 1..(n + 1) /\ \A i \in 1..n : (i < q => es[i].fd < fd) /\ (i >= q => es[i].fd > fd)
    BY <1>1, <1>6
  <2>2. pos < 0
    BY <1>1, <1>6
  <2> HIDE DEF q
  <2>3. t = InsertAt(es, q, e)
    BY <1>4, <2>2 DEF q
  <2>4. /\ t \in Seq(EntrySet) /\ Len(t) = n + 1
        /\ \A k \in 1..(n + 1) : t[k] = IF k < q THEN es[k] ELSE IF k = q THEN e ELSE es[k - 1]
    <3> DEFINE u == InsertAt(es, q, e)
    <3>1. /\ u \in Seq(EntrySet) /\ Len(u) = n + 1
          /\ \A k \in 1..(n + 1) : u[k] = IF k < q THEN es[k] ELSE IF k = q THEN e ELSE es[k - 1]
      BY <1>1, <1>2, <2>1, InsertIs
    <3> QED
      BY <2>3, <3>1
  <2>5. DOMAIN t = 1..(n + 1)
    BY <2>4, <1>1
  <2>6. ASSUME NEW k \in 1..(n + 1), k # q
        PROVE  \E i \in 1..n : t[k] = es[i] /\ es[i].fd # fd /\ (k < q => i = k) /\ (k > q => i = k - 1)
    <3>1. CASE k < q
      <4>1. k \in 1..n /\ es[k].fd < fd /\ t[k] = es[k]
        BY <1>1, <2>1, <2>4, <3>1
      <4> QED
        BY <1>1, <1>2, <2>1, <3>1, <4>1
    <3>2. CASE k > q
      <4>1. k - 1 \in 1..n /\ es[k - 1].fd > fd /\ t[k] = es[k - 1]
        BY <1>1, <2>1, <2>4, <3>2
      <4> QED
        BY <1>1, <1>2, <2>1, <3>2, <4>1
    <3> QED
      BY <1>1, <2>1, <2>6, <3>1, <3>2
  <2>7. t[q] = e
    BY <2>1, <2>4
  <2>8. \A k \in 1..(n + 1) : EntryOK(t[k])
    BY <1>1, <1>2, <2>6, <2>7
  <2>9. ASSUME NEW k \in 1..(n + 1), NEW m \in 1..(n + 1), k < m
        PROVE  t[k].fd < t[m].fd
    <3>1. CASE m < q
      BY <1>1, <2>1, <2>4, <2>9, <3>1
    <3>2. CASE m = q
      <4>1. k < q /\ t[k] = es[k] /\ k \in 1..n
        BY <1>1, <2>1, <2>4, <2>9, <3>2
      <4> QED
        BY <1>2, <2>1, <2>7, <3>2, <4>1
    <3>3. CASE m > q
      <4>1. t[m] = es[m - 1] /\ m - 1 \in 1..n /\ m - 1 >= q
        BY <1>1, <2>1, <2>4, <3>3
      <4>2. CASE k < q
        <5>1. t[k] = es[k] /\ k \in 1..n /\ k < m - 1
          BY <1>1, <2>1, <2>4, <3>3, <4>2
        <5> QED
          BY <1>1, <4>1, <5>1
      <4>3. CASE k = q
        BY <1>2, <2>1, <2>7, <4>1, <4>3
      <4>4. CASE k > q
        <5>1. t[k] = es[k - 1] /\ k - 1 \in 1..n /\ k - 1 < m - 1
          BY <1>1, <2>1, <2>4, <2>9, <4>4
        <5> QED
          BY <1>1, <4>1, <5>1
      <4> QED
        BY <2>1, <4>2, <4>3, <4>4
    <3> QED
      BY <2>1, <3>1, <3>2, <3>3
  <2>10. Good(t)
    BY <2>4, <2>5, <2>8, <2>9 DEF Good, Sorted
  <2>11. \A k \in DOMAIN t : t[k] = e \/ \E i \in DOMAIN es : t[k] = es[i] /\ es[i].fd # fd
    BY <1>1, <2>5, <2>6, <2>7
  <2>12. \E k \in DOMAIN t : t[k] = e
    BY <2>1, <2>5, <2>7
  <2>13. ASSUME NEW i \in 1..n
         PROVE  \E k \in DOMAIN t : t[k] = es[i]
    <3>1. CASE i < q
      BY <1>1, <2>1, <2>4, <2>5, <3>1
    <3>2. CASE ~(i < q)
      <4>1. i + 1 \in 1..(n + 1) /\ t[i + 1] = es[i + 1 - 1] /\ i + 1 - 1 = i
        BY <1>1, <2>1, <2>4, <3>2
      <4> QED
        BY <2>5, <4>1
    <3> QED
      BY <3>1, <3>2
  <2> QED
    BY <1>1, <2>4, <2>10, <2>11, <2>12, <2>13 DEF t, e
<1> QED
  BY <1>3, <1>5, <1>6 DEF Found

LEMMA AddMaps ==
  ASSUME NEW es, Good(es), NEW fd \in Fds, NEW events \in Asks
  PROVE  /\ FdsOf(AddedTo(es, fd, events)) = FdsOf(es) \cup {fd}
         /\ MapOf(AddedTo(es, fd, events)) =
              [f \in FdsOf(es) \cup {fd} |-> IF f = fd THEN events ELSE MapOf(es)[f]]
<1> DEFINE t == AddedTo(es, fd, events)
           e == Entry(fd, events)
           g == [f \in FdsOf(es) \cup {fd} |-> IF f = fd THEN events ELSE MapOf(es)[f]]
<1>1. /\ Good(t)
      /\ \A k \in DOMAIN t : t[k] = e \/ \E i \in DOMAIN es : t[k] = es[i] /\ es[i].fd # fd
      /\ \E k \in DOMAIN t : t[k] = e
      /\ \A i \in DOMAIN es : es[i].fd # fd => \E k \in DOMAIN t : t[k] = es[i]
  BY AddIs
<1>2. e.fd = fd /\ e.events = events
  BY EntryIs
<1> HIDE DEF t, e
<1>3. FdsOf(t) = FdsOf(es) \cup {fd}
  <2>1. \A f \in FdsOf(t) : f \in FdsOf(es) \cup {fd}
    BY <1>1, <1>2 DEF FdsOf
  <2>2. \A f \in FdsOf(es) : f \in FdsOf(t)
    <3> TAKE f \in FdsOf(es)
    <3>1. PICK i \in DOMAIN es : es[i].fd = f
      BY DEF FdsOf
    <3> QED
      BY <1>1, <1>2, <3>1 DEF FdsOf
  <2>3. fd \in FdsOf(t)
    BY <1>1, <1>2 DEF FdsOf
  <2> QED
    BY <2>1, <2>2, <2>3
<1>4. \A k \in DOMAIN t : t[k].events = g[t[k].fd]
  <2> TAKE k \in DOMAIN t
  <2>1. CASE t[k] = e
    BY <1>2, <2>1
  <2>2. CASE \E i \in DOMAIN es : t[k] = es[i] /\ es[i].fd # fd
    <3>1. PICK i \in DOMAIN es : t[k] = es[i] /\ es[i].fd # fd
      BY <2>2
    <3>2. es[i].fd \in FdsOf(es) /\ MapOf(es)[es[i].fd] = es[i].events
      BY MapIs
    <3> QED
      BY <3>1, <3>2
  <2> QED
    BY <1>1, <2>1, <2>2
<1> HIDE DEF g
<1>5. MapOf(t) = [f \in FdsOf(es) \cup {fd} |-> g[f]]
  <2>1. \A D : FdsOf(t) = D => MapOf(t) = [f \in D |-> g[f]]
    BY <1>1, <1>4, MapsTo
  <2> QED
    BY <1>3, <2>1
<1>6. [f \in FdsOf(es) \cup {fd} |-> g[f]] = g
  BY DEF g
<1> QED
  BY <1>3, <1>5, <1>6 DEF t, g

\* Deleting leaves some of the entries.
Part(t, es) == Good(t) /\ Len(t) <= Len(es) /\ \A k \in DOMAIN t : \E i \in DOMAIN es : t[k] = es[i]

LEMMA PartMaps ==
  ASSUME NEW es, Good(es), NEW t, Part(t, es)
  PROVE  \E gone \in SUBSET FdsOf(es) : MapOf(t) = [f \in FdsOf(es) \ gone |-> MapOf(es)[f]]
<1>1. FdsOf(t) \subseteq FdsOf(es)
  BY DEF Part, FdsOf
<1>2. \A k \in DOMAIN t : t[k].events = MapOf(es)[t[k].fd]
  BY MapIs DEF Part
<1>3. MapOf(t) = [f \in FdsOf(t) |-> MapOf(es)[f]]
  BY <1>2, MapsTo DEF Part
<1> DEFINE gone == FdsOf(es) \ FdsOf(t)
<1>4. FdsOf(es) \ gone = FdsOf(t)
  BY <1>1
<1> QED
  BY <1>3, <1>4

LEMMA DeletedIs ==
  ASSUME NEW es, Good(es), NEW fd \in Fds
  PROVE  Part(Deleted(es, fd), es)
<1> DEFINE n == Len(es)
           pos == BinSearch(es, fd)
           t == Deleted(es, fd)
<1>1. /\ es \in Seq(EntrySet) /\ Sorted(es) /\ n \in Nat /\ DOMAIN es = 1..n
      /\ \A i \in 1..n : EntryOK(es[i]) /\ es[i].fd \in Int
      /\ \A i, j \in 1..n : i < j => es[i].fd < es[j].fd
  BY GoodIs DEF Good
<1>2. Found(es, fd, pos)
  BY <1>1, BinSearchFinds
<1>3. t = IF pos < 0 THEN es ELSE RemoveAt(es, pos + 1)
  BY DEF Deleted
<1> HIDE DEF pos, t
<1>4. CASE t = es
  BY <1>1, <1>4 DEF Part, t
<1>5. CASE t # es
  <2> DEFINE q == pos + 1
  <2>0. ~(pos < 0) /\ t = RemoveAt(es, q)
    BY <1>3, <1>5
  <2>1. q \in 1..n /\ t = RemoveAt(es, q)
    BY <1>1, <1>2, <2>0 DEF Found
  <2> HIDE DEF q
  <2>2. /\ t \in Seq(EntrySet) /\ Len(t) = n - 1
        /\ \A k \in 1..(n - 1) : t[k] = IF k < q THEN es[k] ELSE es[k + 1]
    <3>1. es \in Seq(EntrySet) /\ q \in 1..Len(es)
      BY <1>1, <2>1
    <3>2. /\ RemoveAt(es, q) \in Seq(EntrySet) /\ Len(RemoveAt(es, q)) = Len(es) - 1
          /\ \A k \in 1..(Len(es) - 1) : RemoveAt(es, q)[k] = IF k < q THEN es[k] ELSE es[k + 1]
      BY ONLY <3>1, RemoveIs
    <3> QED
      BY <2>1, <3>2
  <2>3. DOMAIN t = 1..(n - 1)
    BY <2>2, <1>1
  <2>4. \A k \in 1..(n - 1) : k \in 1..n /\ k + 1 \in 1..n
    BY <1>1
  <2>5. \A k \in 1..(n - 1) : EntryOK(t[k]) /\ \E i \in 1..n : t[k] = es[i]
    BY <1>1, <2>2, <2>4
  <2>6. ASSUME NEW k \in 1..(n - 1), NEW m \in 1..(n - 1), k < m
        PROVE  t[k].fd < t[m].fd
    <3>1. k \in 1..n /\ k + 1 \in 1..n /\ m \in 1..n /\ m + 1 \in 1..n /\ k < m + 1 /\ k + 1 < m + 1
      BY <2>4, <2>6
    <3> QED
      BY <1>1, <2>1, <2>2, <2>6, <3>1
  <2>7. Good(t)
    BY <2>2, <2>3, <2>5, <2>6 DEF Good, Sorted
  <2>8. Len(t) <= Len(es) /\ \A k \in DOMAIN t : \E i \in DOMAIN es : t[k] = es[i]
    <3>1. Len(t) <= Len(es)
      BY <1>1, <2>2
    <3>2. \A k \in DOMAIN t : \E i \in DOMAIN es : t[k] = es[i]
      BY <1>1, <2>3, <2>5
    <3> QED
      BY <3>1, <3>2
  <2>9. Part(t, es)
    BY <2>7, <2>8 DEF Part
  <2> QED
    BY <2>9 DEF t
<1> QED
  BY <1>4, <1>5

\* A step of the loop that deletes what was closed, and one of the scan.
KeepStep(es, kept, i) ==
  IF i = Len(es) THEN es
  ELSE IF CheckFd(es[i + 1].fd) THEN kept[i + 1] ELSE Deleted(kept[i + 1], es[i + 1].fd)
HitStep(es, hits, i) ==
  IF i = 0 THEN <<>>
  ELSE IF es[i].revents # {} THEN Append(hits[i - 1], es[i]) ELSE hits[i - 1]
IsKept(f, es) == f = [i \in 0..Len(es) |-> KeepStep(es, f, i)]
IsHits(f, es) == f = [i \in 0..Len(es) |-> HitStep(es, f, i)]

LEMMA KeptExists ==
  ASSUME NEW es, Len(es) \in Nat
  PROVE  \E f : IsKept(f, es)
<1> DEFINE n == Len(es)
           P(k) == \E f : \A i \in (n - k)..n : f[i] = KeepStep(es, f, i)
           B == {k \in Nat : k <= n /\ ~P(k)}
<1>1. B = {}
  <2> SUFFICES ASSUME B # {} PROVE FALSE
    OBVIOUS
  <2>1. PICK k \in B : \A j \in B : k <= j
    BY Least
  <2>2. CASE k = 0
    <3> DEFINE f == [i \in {n} |-> es]
    <3>1. \A i \in (n - 0)..n : i = n /\ f[i] = es
      OBVIOUS
    <3> HIDE DEF f
    <3>2. P(0)
      BY <3>1 DEF KeepStep
    <3> QED
      BY <2>1, <2>2, <3>2
  <2>3. CASE k # 0
    <3>1. k \in 1..n /\ k - 1 \in Nat /\ k - 1 <= n /\ ~(k <= k - 1)
      BY <2>1, <2>3
    <3>2. P(k - 1)
      BY <2>1, <3>1
    <3>3. PICK f : \A i \in (n - (k - 1))..n : f[i] = KeepStep(es, f, i)
      BY <3>2
    <3> DEFINE g == [i \in (n - k)..n |-> IF i = n - k THEN KeepStep(es, f, i) ELSE f[i]]
    <3>4. \A i \in (n - (k - 1))..n : g[i] = f[i]
      BY <3>1
    <3>5. g[n - k] = KeepStep(es, f, n - k)
      BY <3>1
    <3> HIDE DEF g
    <3>6. ASSUME NEW i \in (n - k)..n
          PROVE  g[i] = KeepStep(es, g, i)
      <4>0. i = n - k \/ i \in (n - (k - 1))..n
        BY <3>1
      <4>1. g[i] = KeepStep(es, f, i)
        BY <3>3, <3>4, <3>5, <4>0
      <4>2. i # n => i + 1 \in (n - (k - 1))..n
        BY <3>1
      <4>3. i # n => g[i + 1] = f[i + 1]
        BY <3>4, <4>2
      <4> QED
        BY <4>1, <4>3 DEF KeepStep
    <3>7. P(k)
      BY <3>6
    <3> QED
      BY <2>1, <3>7
  <2> QED
    BY <2>2, <2>3
<1>2. n \in Nat /\ n <= n /\ n - n = 0
  OBVIOUS
<1>20. P(n)
  BY <1>1, <1>2
<1>3. PICK f : \A i \in 0..n : f[i] = KeepStep(es, f, i)
  BY <1>2, <1>20
<1> DEFINE g == [i \in 0..n |-> f[i]]
<1>4. \A i \in 0..n : g[i] = f[i]
  OBVIOUS
<1>5. g = [i \in 0..n |-> g[i]]
  OBVIOUS
<1> HIDE DEF g
<1>6. ASSUME NEW i \in 0..n
      PROVE  g[i] = KeepStep(es, g, i)
  <2>1. i # n => g[i + 1] = f[i + 1]
    BY <1>4
  <2> QED
    BY <1>3, <1>4, <2>1 DEF KeepStep
<1> QED
  BY <1>5, <1>6 DEF IsKept

LEMMA HitsExist ==
  ASSUME NEW es, Len(es) \in Nat
  PROVE  \E f : IsHits(f, es)
<1> DEFINE n == Len(es)
           P(k) == \E f : \A i \in 0..k : f[i] = HitStep(es, f, i)
           B == {k \in Nat : ~P(k)}
<1>1. B = {}
  <2> SUFFICES ASSUME B # {} PROVE FALSE
    OBVIOUS
  <2>1. PICK k \in B : \A j \in B : k <= j
    BY Least
  <2>2. CASE k = 0
    <3> DEFINE f == [i \in {0} |-> <<>>]
    <3>1. \A i \in 0..0 : i = 0 /\ f[i] = <<>>
      OBVIOUS
    <3> HIDE DEF f
    <3>2. P(0)
      BY <3>1 DEF HitStep
    <3> QED
      BY <2>1, <2>2, <3>2
  <2>3. CASE k # 0
    <3>1. k \in Nat /\ k - 1 \in Nat /\ ~(k <= k - 1)
      BY <2>1, <2>3
    <3>2. P(k - 1)
      BY <2>1, <3>1
    <3>3. PICK f : \A i \in 0..(k - 1) : f[i] = HitStep(es, f, i)
      BY <3>2
    <3> DEFINE g == [i \in 0..k |-> IF i = k THEN HitStep(es, f, i) ELSE f[i]]
    <3>4. \A i \in 0..(k - 1) : g[i] = f[i]
      BY <3>1
    <3>5. g[k] = HitStep(es, f, k)
      BY <3>1
    <3> HIDE DEF g
    <3>6. ASSUME NEW i \in 0..k
          PROVE  g[i] = HitStep(es, g, i)
      <4>0. i = k \/ i \in 0..(k - 1)
        BY <3>1
      <4>1. g[i] = HitStep(es, f, i)
        BY <3>3, <3>4, <3>5, <4>0
      <4>2. i # 0 => i - 1 \in 0..(k - 1)
        BY <3>1
      <4>3. i # 0 => g[i - 1] = f[i - 1]
        BY <3>4, <4>2
      <4> QED
        BY <4>1, <4>3 DEF HitStep
    <3>7. P(k)
      BY <3>6
    <3> QED
      BY <2>1, <3>7
  <2> QED
    BY <2>2, <2>3
<1>2. P(n)
  BY <1>1
<1>3. PICK f : \A i \in 0..n : f[i] = HitStep(es, f, i)
  BY <1>2
<1> DEFINE g == [i \in 0..n |-> f[i]]
<1>4. \A i \in 0..n : g[i] = f[i]
  OBVIOUS
<1>5. g = [i \in 0..n |-> g[i]]
  OBVIOUS
<1> HIDE DEF g
<1>6. ASSUME NEW i \in 0..n
      PROVE  g[i] = HitStep(es, g, i)
  <2>1. i # 0 => g[i - 1] = f[i - 1]
    BY <1>4
  <2> QED
    BY <1>3, <1>4, <2>1 DEF HitStep
<1> QED
  BY <1>5, <1>6 DEF IsHits

LEMMA KeptSteps ==
  ASSUME NEW es, Len(es) \in Nat
  PROVE  \E f : Kept(es) = f[0] /\ \A i \in 0..Len(es) : f[i] = KeepStep(es, f, i)
<1>1. \E f : IsKept(f, es)
  BY KeptExists
<1>2. \E f : IsKept(f, es) /\ Kept(es) = f[0]
  BY <1>1 DEF Kept, IsKept, KeepStep
<1>3. PICK f : IsKept(f, es) /\ Kept(es) = f[0]
  BY <1>2
<1>4. f = [i \in 0..Len(es) |-> KeepStep(es, f, i)]
  BY <1>3 DEF IsKept
<1>5. \A i \in 0..Len(es) : f[i] = KeepStep(es, f, i)
  BY <1>4
<1> QED
  BY <1>3, <1>5

LEMMA HitsSteps ==
  ASSUME NEW es, Len(es) \in Nat
  PROVE  \E f : Hits(es) = f[Len(es)] /\ \A i \in 0..Len(es) : f[i] = HitStep(es, f, i)
<1>1. \E f : IsHits(f, es)
  BY HitsExist
<1>2. \E f : IsHits(f, es) /\ Hits(es) = f[Len(es)]
  BY <1>1 DEF Hits, IsHits, HitStep
<1>3. PICK f : IsHits(f, es) /\ Hits(es) = f[Len(es)]
  BY <1>2
<1>4. f = [i \in 0..Len(es) |-> HitStep(es, f, i)]
  BY <1>3 DEF IsHits
<1>5. \A i \in 0..Len(es) : f[i] = HitStep(es, f, i)
  BY <1>4
<1> QED
  BY <1>3, <1>5

\* What DelClosed leaves is some of the entries, in their order.
LEMMA KeptIs ==
  ASSUME NEW es, Good(es)
  PROVE  Part(Kept(es), es)
<1> DEFINE n == Len(es)
<1>1. n \in Nat /\ DOMAIN es = 1..n /\ \A i \in 1..n : es[i].fd \in Fds
  BY GoodIs
<1>2. PICK f : Kept(es) = f[0] /\ \A i \in 0..n : f[i] = KeepStep(es, f, i)
  BY <1>1, KeptSteps
<1> DEFINE B == {k \in Nat : k <= n /\ ~Part(f[n - k], es)}
<1>3. B = {}
  <2> SUFFICES ASSUME B # {} PROVE FALSE
    OBVIOUS
  <2>1. PICK k \in B : \A j \in B : k <= j
    BY Least
  <2>0. k \in Nat /\ k <= n /\ ~Part(f[n - k], es)
    BY <2>1
  <2>2. CASE k = 0
    <3>1. n \in 0..n /\ n - k = n
      BY <1>1, <2>2
    <3>2. f[n] = es
      BY <1>2, <3>1 DEF KeepStep
    <3>3. Part(es, es)
      BY <1>1 DEF Part
    <3> QED
      BY <2>0, <3>1, <3>2, <3>3
  <2>3. CASE k # 0
    <3> DEFINE i == n - k
    <3> HIDE DEF B, n
    <3>1. i \in 0..n /\ i # n /\ i + 1 \in 1..n /\ i + 1 = n - (k - 1) /\ k - 1 \in Nat /\ k - 1 <= n
          /\ ~(k <= k - 1)
      BY <1>1, <2>0, <2>3
    <3> HIDE DEF i
    <3>2. Part(f[i + 1], es)
      <4>1. k - 1 \notin B
        BY <2>1, <3>1
      <4> QED
        BY <3>1, <4>1 DEF B
    <3>3. f[i] = IF CheckFd(es[i + 1].fd) THEN f[i + 1] ELSE Deleted(f[i + 1], es[i + 1].fd)
      BY <1>2, <3>1 DEF KeepStep, n
    <3>4. CASE f[i] = f[i + 1]
      BY <2>0, <3>2, <3>4 DEF i
    <3>5. CASE f[i] = Deleted(f[i + 1], es[i + 1].fd)
      <4>1. Part(f[i], f[i + 1])
        <5>1. Good(f[i + 1]) /\ es[i + 1].fd \in Fds
          BY <1>1, <3>1, <3>2 DEF Part
        <5> QED
          BY <3>5, <5>1, DeletedIs
      <4>2. Len(f[i]) \in Nat /\ Len(f[i + 1]) \in Nat
        BY <3>2, <4>1, GoodIs DEF Part
      <4>3. Part(f[i], es)
        <5>1. Good(f[i]) /\ Len(f[i]) <= Len(es)
          BY <1>1, <3>2, <4>1, <4>2 DEF Part
        <5>2. \A a \in DOMAIN f[i] : \E b \in DOMAIN es : f[i][a] = es[b]
          BY <3>2, <4>1 DEF Part
        <5> QED
          BY <5>1, <5>2 DEF Part
      <4> QED
        BY <2>0, <4>3 DEF i
    <3> QED
      BY <3>3, <3>4, <3>5
  <2> QED
    BY <2>2, <2>3
<1>4. n \notin B
  BY <1>3
<1>5. Part(f[n - n], es) /\ n - n = 0
  BY <1>1, <1>4
<1> QED
  BY <1>2, <1>5

\* The scan finds each entry with events, once and in the order of the array.
HitsOf(h, es, i) ==
  /\ h \in Seq(EntrySet)
  /\ Len(h) = Cardinality({j \in 1..i : es[j].revents # {}})
  /\ \A k \in DOMAIN h : \E j \in 1..i : h[k] = es[j] /\ es[j].revents # {}
  /\ \A k, m \in DOMAIN h : k < m => h[k].fd < h[m].fd
  /\ \A j \in 1..i : es[j].revents # {} => \E k \in DOMAIN h : h[k] = es[j]

LEMMA HitsNext ==
  ASSUME NEW es, Good(es), NEW i \in 1..Len(es), NEW h, HitsOf(h, es, i - 1)
  PROVE  HitsOf(IF es[i].revents # {} THEN Append(h, es[i]) ELSE h, es, i)
<1> DEFINE R(j) == {m \in 1..j : es[m].revents # {}}
<1>1. /\ Len(es) \in Nat /\ es[i] \in EntrySet /\ es[i].fd \in Int
      /\ \A j \in 1..(i - 1) : j \in 1..i /\ es[j].fd < es[i].fd
      /\ \A j \in 1..i : j \in 1..(i - 1) \/ j = i
  BY GoodIs
<1>2. IsFiniteSet(R(i - 1))
  <2>1. IsFiniteSet(1..(i - 1)) /\ R(i - 1) \subseteq 1..(i - 1)
    BY <1>1, FS_Interval
  <2> HIDE DEF R
  <2> QED
    BY <2>1, FS_Subset
<1>3. /\ h \in Seq(EntrySet) /\ Len(h) = Cardinality(R(i - 1)) /\ Len(h) \in Nat
      /\ DOMAIN h = 1..Len(h)
      /\ \A k \in DOMAIN h : \E j \in 1..(i - 1) : h[k] = es[j] /\ es[j].revents # {}
      /\ \A k, m \in DOMAIN h : k < m => h[k].fd < h[m].fd
      /\ \A j \in 1..(i - 1) : es[j].revents # {} => \E k \in DOMAIN h : h[k] = es[j]
  <2>1. h \in Seq(EntrySet)
    BY DEF HitsOf
  <2>2. Len(h) \in Nat /\ DOMAIN h = 1..Len(h)
    BY <2>1
  <2> QED
    BY <2>1, <2>2 DEF HitsOf
<1>4. CASE es[i].revents = {}
  <2>1. R(i) = R(i - 1)
    BY <1>1, <1>4
  <2>2. HitsOf(h, es, i)
    <3> HIDE DEF R
    <3>1. Len(h) = Cardinality(R(i))
      BY <1>3, <2>1
    <3>2. /\ \A k \in DOMAIN h : \E j \in 1..i : h[k] = es[j] /\ es[j].revents # {}
          /\ \A j \in 1..i : es[j].revents # {} => \E k \in DOMAIN h : h[k] = es[j]
      BY <1>1, <1>3, <1>4
    <3> QED
      BY <1>3, <3>1, <3>2 DEF HitsOf, R
  <2> QED
    BY <1>4, <2>2
<1>5. CASE es[i].revents # {}
  <2> DEFINE t == Append(h, es[i])
  <2>1. /\ t \in Seq(EntrySet) /\ Len(t) = Len(h) + 1 /\ DOMAIN t = 1..(Len(h) + 1)
        /\ t[Len(h) + 1] = es[i] /\ \A k \in 1..Len(h) : t[k] = h[k]
    <3>1. /\ t \in Seq(EntrySet) /\ Len(t) = Len(h) + 1
          /\ t[Len(h) + 1] = es[i] /\ \A k \in 1..Len(h) : t[k] = h[k]
      <4>1. h \in Seq(EntrySet) /\ es[i] \in EntrySet
        BY <1>1, <1>3
      <4> QED
        BY <4>1, AppendProperties
    <3> HIDE DEF t
    <3>2. DOMAIN t = 1..(Len(h) + 1)
      BY <3>1
    <3> QED
      BY <3>1, <3>2
  <2> HIDE DEF t
  <2>2. R(i) = R(i - 1) \cup {i} /\ i \notin R(i - 1)
    BY <1>1, <1>5
  <2>3. Len(t) = Cardinality(R(i))
    <3> HIDE DEF R
    <3>1. Cardinality(R(i - 1) \cup {i}) = Cardinality(R(i - 1)) + 1
      BY <1>2, <2>2, FS_AddElement
    <3> QED
      BY <1>3, <2>1, <2>2, <3>1
  <2> HIDE DEF R
  <2>4. \A k \in DOMAIN t : (k \in DOMAIN h /\ t[k] = h[k]) \/ (k = Len(h) + 1 /\ t[k] = es[i])
    BY <1>3, <2>1
  <2>5. ASSUME NEW k \in DOMAIN t
        PROVE  \E j \in 1..i : t[k] = es[j] /\ es[j].revents # {}
    <3>1. CASE k \in DOMAIN h /\ t[k] = h[k]
      <4>1. PICK j \in 1..(i - 1) : h[k] = es[j] /\ es[j].revents # {}
        BY <1>3, <3>1
      <4> QED
        BY <1>1, <3>1, <4>1
    <3>2. CASE k = Len(h) + 1 /\ t[k] = es[i]
      <4>1. i \in 1..i
        BY <1>1
      <4> QED
        BY <1>5, <3>2, <4>1
    <3> QED
      BY <2>4, <3>1, <3>2
  <2>6. ASSUME NEW k \in DOMAIN t, NEW m \in DOMAIN t, k < m
        PROVE  t[k].fd < t[m].fd
    <3>1. k \in DOMAIN h /\ t[k] = h[k]
      BY <1>3, <2>1, <2>4, <2>6
    <3>2. CASE m \in DOMAIN h
      BY <1>3, <2>1, <2>6, <3>1, <3>2
    <3>3. CASE m = Len(h) + 1
      BY <1>1, <1>3, <2>1, <3>1, <3>3
    <3> QED
      BY <2>4, <3>2, <3>3
  <2>7. ASSUME NEW j \in 1..i, es[j].revents # {}
        PROVE  \E k \in DOMAIN t : t[k] = es[j]
    <3>1. CASE j = i
      BY <1>3, <2>1, <3>1
    <3>2. CASE j \in 1..(i - 1)
      <4>1. PICK k \in DOMAIN h : h[k] = es[j]
        BY <1>3, <2>7, <3>2
      <4>2. k \in DOMAIN t /\ t[k] = h[k]
        BY <1>3, <2>1, <4>1
      <4> QED
        BY <4>1, <4>2
    <3> QED
      BY <1>1, <3>1, <3>2
  <2>8. HitsOf(t, es, i)
    BY <2>1, <2>3, <2>5, <2>6, <2>7 DEF HitsOf, R
  <2> QED
    BY <1>5, <2>8 DEF t
<1> QED
  BY <1>4, <1>5

LEMMA HitsAre ==
  ASSUME NEW es, Good(es)
  PROVE  HitsOf(Hits(es), es, Len(es))
<1> DEFINE n == Len(es)
<1>1. n \in Nat
  BY GoodIs
<1>2. PICK f : Hits(es) = f[n] /\ \A i \in 0..n : f[i] = HitStep(es, f, i)
  BY <1>1, HitsSteps
<1> DEFINE B == {i \in Nat : i <= n /\ ~HitsOf(f[i], es, i)}
<1>3. B = {}
  <2> SUFFICES ASSUME B # {} PROVE FALSE
    OBVIOUS
  <2>1. PICK i \in B : \A j \in B : i <= j
    BY Least
  <2>0. i \in 0..n /\ ~HitsOf(f[i], es, i)
    BY <1>1, <2>1
  <2>2. CASE i = 0
    <3>1. f[0] = <<>>
      BY <1>2, <2>0, <2>2 DEF HitStep
    <3>2. {j \in 1..0 : es[j].revents # {}} = {}
      OBVIOUS
    <3>3. HitsOf(<<>>, es, 0)
      BY <3>2, FS_EmptySet DEF HitsOf
    <3> QED
      BY <2>0, <2>2, <3>1, <3>3
  <2>3. CASE i # 0
    <3>1. i \in 1..n /\ i - 1 \in Nat /\ i - 1 <= n /\ ~(i <= i - 1)
      BY <1>1, <2>0, <2>3
    <3>2. HitsOf(f[i - 1], es, i - 1)
      BY <2>1, <3>1
    <3>3. f[i] = IF es[i].revents # {} THEN Append(f[i - 1], es[i]) ELSE f[i - 1]
      BY <1>2, <2>0, <2>3 DEF HitStep
    <3>4. HitsOf(f[i], es, i)
      BY <3>1, <3>2, <3>3, HitsNext
    <3> QED
      BY <2>0, <3>4
  <2> QED
    BY <2>2, <2>3
<1>4. n \notin B
  BY <1>3
<1> QED
  BY <1>1, <1>2, <1>4

-----------------------------------------------------------------------------
(***************************************************************************)
(* xpoll: the inductive invariant.                                         *)
(***************************************************************************)
XpollShape ==
  /\ open \subseteq {fd \in Fds : fd >= 0} /\ ready \subseteq Changing /\ held \subseteq Fds
  /\ Good(fds) /\ Len(fds) <= FD_SETSIZE
  /\ pc \in {"out", "einval", "select", "fill", "scan"}
  /\ call.max \in MaxFds \cup {0} /\ call.count \in Nat /\ call.count <= Len(fds)
  /\ DOMAIN call = {"max", "timeout", "asked", "count"}

\* What is left over from a call, and what is asked for the set as it is.
XpollCallInv ==
  /\ pc = "out" => call = NoCall /\ held = {}
  /\ pc # "out" => answer = None /\ reported = <<>>
  /\ pc = "scan" => call.count = Cardinality(Ready(fds))
  /\ pc \in {"select", "fill"} =>
       \A r \in call.asked : \A i \in DOMAIN fds : fds[i].fd = r[1] => r[2] \in fds[i].events

\* An entry that was ready all the time is on its way to the results.
PairsOf(i) == {fds[i].fd} \X fds[i].events
OnTheWay(i) ==
  /\ pc = "select" => /\ fds[i].revents = {} /\ PairsOf(i) \subseteq call.asked
                      /\ Select(PairsOf(i), ready) # {}
  /\ pc = "fill" => fds[i].revents = {} /\ call.asked \cap PairsOf(i) # {}
  /\ pc = "scan" => fds[i].revents # {}
HeldInv ==
  pc \in {"select", "fill", "scan"} =>
    \A fd \in held : fd \in open /\ \E i \in DOMAIN fds : fds[i].fd = fd /\ OnTheWay(i)

XpollInv == XpollShape /\ XpollCallInv /\ HeldInv

LEMMA XpollInitInv ==
  ASSUME Init
  PROVE  XpollInv
<1> USE DEF Init
<1>1. Good(fds) /\ Len(fds) = 0
  BY DEF Good, Sorted
<1>2. XpollShape
  BY <1>1, XpollAssumption DEF XpollShape, NoCall
<1>3. XpollCallInv /\ HeldInv
  BY DEF XpollCallInv, HeldInv, NoCall
<1> QED
  BY <1>2, <1>3 DEF XpollInv

\* Entries that keep their descriptor and events make up the same map.
LEMMA SameKeys ==
  ASSUME NEW es, Good(es), NEW t, t \in [DOMAIN es -> EntrySet],
         \A i \in DOMAIN es : t[i].fd = es[i].fd /\ t[i].events = es[i].events /\ EntryOK(t[i])
  PROVE  /\ Good(t) /\ Len(t) = Len(es) /\ DOMAIN t = DOMAIN es
         /\ FdsOf(t) = FdsOf(es) /\ MapOf(t) = MapOf(es)
<1>1. /\ Len(es) \in Nat /\ DOMAIN es = 1..Len(es) /\ Sorted(es)
  BY GoodIs DEF Good
<1>2. t \in Seq(EntrySet) /\ Len(t) = Len(es) /\ DOMAIN t = DOMAIN es
  BY <1>1
<1>3. Good(t)
  BY <1>1, <1>2 DEF Good, Sorted
<1>4. FdsOf(t) = FdsOf(es)
  BY <1>2 DEF FdsOf
<1> DEFINE g == MapOf(es)
<1>5. \A i \in DOMAIN t : t[i].events = g[t[i].fd]
  BY <1>2, MapIs
<1>6. g = [fd \in FdsOf(es) |-> g[fd]]
  BY DEF MapOf
<1> HIDE DEF g
<1>7. MapOf(t) = [fd \in FdsOf(t) |-> g[fd]]
  BY <1>3, <1>5, MapsTo
<1> QED
  BY <1>2, <1>3, <1>4, <1>6, <1>7 DEF g

\* An entry is changed in what it has found only.
LEMMA ReventsIs ==
  ASSUME NEW e \in EntrySet, NEW found, found \subseteq e.events \cup {"POLLNVAL"},
         NEW f, f = [e EXCEPT !.revents = found]
  PROVE  f \in EntrySet /\ f.fd = e.fd /\ f.events = e.events /\ f.revents = found /\ EntryOK(f)
<1>1. PICK fd \in Fds, ev \in Asks, rev \in SUBSET (Events \cup {"POLLNVAL"}) :
             e = [fd |-> fd, events |-> ev, revents |-> rev]
  BY DEF EntrySet
<1>2. ev \subseteq Events
  BY XpollAssumption
<1>3. [e EXCEPT !.revents = found] = [fd |-> fd, events |-> ev, revents |-> found]
  BY <1>1
<1>4. found \in SUBSET (Events \cup {"POLLNVAL"})
  BY <1>1, <1>2
<1> QED
  BY <1>1, <1>3, <1>4 DEF EntrySet, EntryOK

\* poll()'s first loop.
LEMMA CheckIs ==
  ASSUME NEW es, Good(es)
  PROVE  LET t == Check(es, open)
         IN  /\ Good(t) /\ Len(t) = Len(es) /\ DOMAIN t = DOMAIN es
             /\ FdsOf(t) = FdsOf(es) /\ MapOf(t) = MapOf(es)
             /\ \A i \in DOMAIN es : t[i].fd = es[i].fd /\ t[i].events = es[i].events
             /\ TooLarge(es, open) = {} =>
                  \A i \in DOMAIN es : Supported(es[i].fd, open) => t[i].revents = {}
<1> DEFINE t == Check(es, open)
           found(i) == IF es[i].fd >= 0 /\ ~Supported(es[i].fd, open) THEN {"POLLNVAL"} ELSE {}
<1>1. \A i \in DOMAIN es : es[i] \in EntrySet /\ EntryOK(es[i])
  BY GoodIs
<1>2. DOMAIN t = DOMAIN es
  BY DEF Check
<1>3. \A i \in DOMAIN es : t[i] = IF i \notin Loop(es, open) THEN es[i]
                                  ELSE [es[i] EXCEPT !.revents = found(i)]
  BY DEF Check
<1>4. t = [i \in DOMAIN es |-> t[i]]
  BY DEF Check
<1> HIDE DEF t
<1>5. ASSUME NEW i \in DOMAIN es
      PROVE  /\ t[i] \in EntrySet /\ t[i].fd = es[i].fd /\ t[i].events = es[i].events /\ EntryOK(t[i])
             /\ i \in Loop(es, open) => t[i].revents = found(i)
  <2>1. found(i) \subseteq es[i].events \cup {"POLLNVAL"}
    OBVIOUS
  <2> HIDE DEF found
  <2>2. es[i] \in EntrySet /\ EntryOK(es[i])
    BY <1>1
  <2>3. CASE t[i] = es[i] /\ ~(i \in Loop(es, open))
    BY <2>2, <2>3
  <2>4. CASE t[i] = [es[i] EXCEPT !.revents = found(i)]
    <3> DEFINE e == es[i]
               rev == found(i)
               f == t[i]
    <3>1. e \in EntrySet /\ rev \subseteq e.events \cup {"POLLNVAL"} /\ f = [e EXCEPT !.revents = rev]
      BY <2>1, <2>2, <2>4
    <3> HIDE DEF e, rev, f
    <3>2. f \in EntrySet /\ f.fd = e.fd /\ f.events = e.events /\ f.revents = rev /\ EntryOK(f)
      BY <3>1, ReventsIs
    <3> QED
      BY <3>2 DEF e, rev, f
  <2> QED
    BY <1>3, <2>3, <2>4
<1>6. t \in [DOMAIN es -> EntrySet]
  BY <1>4, <1>5
<1>7. TooLarge(es, open) = {} => \A i \in DOMAIN es : Supported(es[i].fd, open) => t[i].revents = {}
  BY <1>5 DEF Loop
<1> QED
  BY <1>5, <1>6, <1>7, SameKeys DEF t

\* poll()'s second loop.
LEMMA FillIs ==
  ASSUME NEW es, Good(es), NEW sel,
         \A r \in sel : \A i \in DOMAIN es : es[i].fd = r[1] => r[2] \in es[i].events
  PROVE  LET t == Fill(es, sel)
         IN  /\ Good(t) /\ Len(t) = Len(es) /\ DOMAIN t = DOMAIN es
             /\ FdsOf(t) = FdsOf(es) /\ MapOf(t) = MapOf(es)
             /\ \A i \in DOMAIN es :
                  /\ t[i].fd = es[i].fd /\ t[i].events = es[i].events
                  /\ es[i].fd >= 0 /\ es[i].revents = {} =>
                       t[i].revents = {e \in Events : <<es[i].fd, e>> \in sel}
<1> DEFINE t == Fill(es, sel)
           found(i) == {e \in Events : <<es[i].fd, e>> \in sel}
<1>1. \A i \in DOMAIN es : es[i] \in EntrySet /\ EntryOK(es[i])
  BY GoodIs
<1>2. DOMAIN t = DOMAIN es
  BY DEF Fill
<1>3. \A i \in DOMAIN es : t[i] = IF es[i].fd >= 0 /\ es[i].revents = {}
                                  THEN [es[i] EXCEPT !.revents = found(i)] ELSE es[i]
  BY DEF Fill
<1>4. t = [i \in DOMAIN es |-> t[i]]
  BY DEF Fill
<1> HIDE DEF t
<1>5. ASSUME NEW i \in DOMAIN es
      PROVE  /\ t[i] \in EntrySet /\ t[i].fd = es[i].fd /\ t[i].events = es[i].events /\ EntryOK(t[i])
             /\ es[i].fd >= 0 /\ es[i].revents = {} => t[i].revents = found(i)
  <2>1. found(i) \subseteq es[i].events \cup {"POLLNVAL"}
    OBVIOUS
  <2> HIDE DEF found
  <2>2. es[i] \in EntrySet /\ EntryOK(es[i])
    BY <1>1
  <2>3. CASE t[i] = es[i] /\ ~(es[i].fd >= 0 /\ es[i].revents = {})
    BY <2>2, <2>3
  <2>4. CASE t[i] = [es[i] EXCEPT !.revents = found(i)]
    <3> DEFINE e == es[i]
               rev == found(i)
               f == t[i]
    <3>1. e \in EntrySet /\ rev \subseteq e.events \cup {"POLLNVAL"} /\ f = [e EXCEPT !.revents = rev]
      BY <2>1, <2>2, <2>4
    <3> HIDE DEF e, rev, f
    <3>2. f \in EntrySet /\ f.fd = e.fd /\ f.events = e.events /\ f.revents = rev /\ EntryOK(f)
      BY <3>1, ReventsIs
    <3> QED
      BY <3>2 DEF e, rev, f
  <2> QED
    BY <1>3, <2>3, <2>4
<1>6. t \in [DOMAIN es -> EntrySet]
  BY <1>4, <1>5
<1> QED
  BY <1>5, <1>6, SameKeys DEF t

\* The scan clears the results.
LEMMA ClearIs ==
  ASSUME NEW es, Good(es)
  PROVE  LET t == [i \in DOMAIN es |-> [es[i] EXCEPT !.revents = {}]]
         IN  Good(t) /\ Len(t) = Len(es) /\ FdsOf(t) = FdsOf(es) /\ MapOf(t) = MapOf(es)
<1> DEFINE t == [i \in DOMAIN es |-> [es[i] EXCEPT !.revents = {}]]
<1>1. \A i \in DOMAIN es : es[i] \in EntrySet
  BY GoodIs
<1>2. \A i \in DOMAIN es : t[i] = [es[i] EXCEPT !.revents = {}]
  OBVIOUS
<1>4. t = [i \in DOMAIN es |-> t[i]]
  OBVIOUS
<1> HIDE DEF t
<1>5. \A i \in DOMAIN es : t[i] \in EntrySet /\ t[i].fd = es[i].fd /\ t[i].events = es[i].events
                           /\ EntryOK(t[i])
  <2> TAKE i \in DOMAIN es
  <2> DEFINE none == {}
  <2>1. none \subseteq es[i].events \cup {"POLLNVAL"} /\ es[i] \in EntrySet
    BY <1>1
  <2>2. t[i] = [es[i] EXCEPT !.revents = none]
    BY <1>2
  <2> HIDE DEF none
  <2> QED
    BY <2>1, <2>2, ReventsIs
<1>6. t \in [DOMAIN es -> EntrySet]
  BY <1>4, <1>5
<1> QED
  BY <1>5, <1>6, SameKeys DEF t

-----------------------------------------------------------------------------
(***************************************************************************)
(* xpoll: every step keeps the invariant.                                  *)
(***************************************************************************)
\* The calls that change the set, or nothing of it.
LEMMA SetStep ==
  ASSUME XpollInv, pc = "out", Good(fds'), Len(fds') <= FD_SETSIZE,
         UNCHANGED <<open, ready, pc, call, held>>
  PROVE  XpollInv'
<1>1. XpollShape /\ call = NoCall /\ held = {}
  BY DEF XpollInv, XpollCallInv
<1>2. Len(fds') \in Nat
  BY GoodIs
<1>3. XpollShape'
  BY <1>1, <1>2 DEF XpollShape, NoCall
<1>4. XpollCallInv' /\ HeldInv'
  BY <1>1 DEF XpollCallInv, HeldInv
<1> QED
  BY <1>3, <1>4 DEF XpollInv

LEMMA AddStep ==
  ASSUME XpollInv, NEW fd \in Fds, NEW events \in Asks, Add(fd, events)
  PROVE  XpollInv' /\ fds' = AddedTo(fds, fd, events)
<1>1. fds' = AddedTo(fds, fd, events)
  BY DEF Add, AddedTo
<1>2. Good(fds) /\ FD_SETSIZE \in Nat
  BY XpollAssumption DEF XpollInv, XpollShape
<1>3. Good(fds') /\ Len(fds') <= Len(fds) + 1
  BY <1>1, <1>2, AddIs
<1>4. Len(fds') \in Nat /\ Len(fds) \in Nat /\ Len(fds) < FD_SETSIZE
  BY <1>2, <1>3, GoodIs DEF Add
<1>5. Len(fds') <= FD_SETSIZE
  BY <1>2, <1>3, <1>4
<1> QED
  BY <1>1, <1>3, <1>5, SetStep DEF Add

\* What is left of the set after a deletion is a part of it.
LEMMA PartStep ==
  ASSUME XpollInv, pc = "out", Part(fds', fds), NoResult,
         UNCHANGED <<open, ready, pc, call, held>>
  PROVE  XpollInv'
<1>1. Good(fds) /\ Len(fds) <= FD_SETSIZE /\ FD_SETSIZE \in Nat
  BY XpollAssumption DEF XpollInv, XpollShape
<1>2. Good(fds') /\ Len(fds') <= Len(fds)
  BY DEF Part
<1>3. Len(fds') \in Nat /\ Len(fds) \in Nat
  BY <1>1, <1>2, GoodIs
<1> QED
  BY <1>1, <1>2, <1>3, SetStep

LEMMA DelStep ==
  ASSUME XpollInv, NEW fd \in Fds, Del(fd)
  PROVE  XpollInv' /\ Part(fds', fds)
<1>1. Good(fds)
  BY DEF XpollInv, XpollShape
<1>2. Part(fds', fds)
  BY <1>1, DeletedIs DEF Del
<1> QED
  BY <1>2, PartStep DEF Del

LEMMA DelClosedStep ==
  ASSUME XpollInv, DelClosed
  PROVE  XpollInv' /\ Part(fds', fds)
<1>1. Good(fds)
  BY DEF XpollInv, XpollShape
<1>2. Part(fds', fds)
  BY <1>1, KeptIs DEF DelClosed
<1> QED
  BY <1>2, PartStep DEF DelClosed

LEMMA QueryStep ==
  ASSUME XpollInv, NEW fd \in Fds, Query(fd)
  PROVE  XpollInv'
<1>1. Good(fds') /\ Len(fds') <= FD_SETSIZE /\ pc' = "out" /\ pc = "out"
  BY DEF XpollInv, XpollShape, Query
<1> QED
  BY <1>1, SetStep DEF Query

\* A call that ends leaves nothing behind.
LEMMA LeaveStep ==
  ASSUME XpollInv, Leave, Good(fds'), Len(fds') <= FD_SETSIZE, UNCHANGED <<open, ready>>
  PROVE  XpollInv'
<1>1. XpollShape /\ call' = NoCall /\ held' = {} /\ pc' = "out"
  BY DEF XpollInv, Leave
<1>2. Len(fds') \in Nat
  BY GoodIs
<1>3. XpollShape'
  BY <1>1, <1>2 DEF XpollShape, NoCall
<1>4. XpollCallInv' /\ HeldInv'
  BY <1>1 DEF XpollCallInv, HeldInv
<1> QED
  BY <1>3, <1>4 DEF XpollInv

LEMMA EinvalStep ==
  ASSUME XpollInv, Einval \/ SelectFails
  PROVE  XpollInv'
<1>1. Leave /\ Good(fds') /\ Len(fds') <= FD_SETSIZE /\ UNCHANGED <<open, ready>>
  BY DEF Einval, SelectFails, XpollInv, XpollShape
<1> QED
  BY <1>1, LeaveStep

LEMMA ScanStep ==
  ASSUME XpollInv, Scan
  PROVE  XpollInv'
<1> DEFINE t == [i \in DOMAIN fds |-> [fds[i] EXCEPT !.revents = {}]]
<1>1. Good(fds) /\ Len(fds) <= FD_SETSIZE
  BY DEF XpollInv, XpollShape
<1>2. fds' = t /\ Leave /\ UNCHANGED <<open, ready>>
  BY DEF Scan
<1>3. Good(t) /\ Len(t) = Len(fds)
  BY <1>1, ClearIs
<1> HIDE DEF t
<1>4. Good(fds') /\ Len(fds') <= FD_SETSIZE
  BY <1>1, <1>2, <1>3
<1> QED
  BY <1>2, <1>4, LeaveStep

\* An entry that is ready when the call begins is asked for.
LEMMA WaitStep ==
  ASSUME XpollInv, Wait
  PROVE  XpollInv' /\ MapOf(fds') = MapOf(fds) /\ FdsOf(fds') = FdsOf(fds)
<1> DEFINE t == Check(fds, open)
<1>1. Good(fds) /\ Len(fds) <= FD_SETSIZE /\ XpollShape
  BY DEF XpollInv, XpollShape
<1>2. /\ Good(t) /\ Len(t) = Len(fds) /\ DOMAIN t = DOMAIN fds
      /\ FdsOf(t) = FdsOf(fds) /\ MapOf(t) = MapOf(fds)
      /\ \A i \in DOMAIN fds : t[i].fd = fds[i].fd /\ t[i].events = fds[i].events
      /\ TooLarge(fds, open) = {} =>
           \A i \in DOMAIN fds : Supported(fds[i].fd, open) => t[i].revents = {}
  BY <1>1, CheckIs
<1>3. fds' = t
  BY DEF Wait
<1> HIDE DEF t
<1>4. PICK max \in MaxFds, timeout \in {"none", "some", "zero"} :
        call' = [max |-> max, asked |-> Asked(fds, open), count |-> 0,
                 timeout |-> IF TimeoutZero(Check(fds, open), timeout) THEN "zero" ELSE timeout]
  BY DEF Wait
<1>5. /\ call'.max = max /\ call'.asked = Asked(fds, open) /\ call'.count = 0
      /\ DOMAIN call' = {"max", "timeout", "asked", "count"}
  BY <1>4
<1>6. /\ UNCHANGED <<open, ready>> /\ answer' = None /\ reported' = <<>>
      /\ pc' \in {"einval", "select", "fill"}
      /\ pc' \in {"select", "fill"} => TooLarge(fds, open) = {}
      /\ pc' = "fill" => ~Waits(fds, open)
  BY DEF Wait, NoResult
<1>7. /\ \A i \in DOMAIN fds : fds[i].fd \in Fds /\ fds[i].events \in Asks
      /\ \A i, j \in DOMAIN fds : fds[i].fd = fds[j].fd => i = j
      /\ Len(fds) \in Nat
  BY <1>1, GoodIs
<1>8. held' = {fds[i].fd : i \in {j \in DOMAIN fds :
                 /\ Supported(fds[j].fd, open)
                 /\ Select({fds[j].fd} \X fds[j].events, ready) # {}}}
  BY DEF Wait
<1>9. XpollShape'
  <2>1. held' \subseteq Fds
    BY <1>7, <1>8
  <2>2. Good(fds') /\ Len(fds') <= FD_SETSIZE /\ call'.count <= Len(fds') /\ call'.count \in Nat
    BY <1>1, <1>2, <1>3, <1>5, <1>7
  <2> QED
    BY <1>1, <1>5, <1>6, <2>1, <2>2 DEF XpollShape
<1>10. XpollCallInv'
  <2>1. ASSUME NEW r \in Asked(fds, open), NEW i \in DOMAIN fds, fds[i].fd = r[1]
        PROVE  r[2] \in fds[i].events
    <3>1. PICK j \in DOMAIN fds : r \in {fds[j].fd} \X fds[j].events
      BY DEF Asked
    <3>2. i = j
      BY <1>7, <2>1, <3>1
    <3> QED
      BY <3>1, <3>2
  <2>2. \A r \in call'.asked : \A i \in DOMAIN fds' : fds'[i].fd = r[1] => r[2] \in fds'[i].events
    BY <1>2, <1>3, <1>5, <2>1
  <2> QED
    BY <1>6, <2>2 DEF XpollCallInv
<1>11. HeldInv'
  <2> SUFFICES ASSUME pc' \in {"select", "fill", "scan"}, NEW fd \in held'
               PROVE  fd \in open' /\ \E i \in DOMAIN fds' : fds'[i].fd = fd /\ OnTheWay(i)'
    BY DEF HeldInv
  <2>1. PICK i \in DOMAIN fds : /\ fd = fds[i].fd /\ Supported(fds[i].fd, open)
                                /\ Select({fds[i].fd} \X fds[i].events, ready) # {}
    BY <1>8
  <2>2. pc' = "select"
    BY <1>6, <2>1 DEF Waits
  <2>3. fds'[i].revents = {} /\ fds'[i].fd = fd /\ PairsOf(i)' = {fds[i].fd} \X fds[i].events
        /\ i \in DOMAIN fds'
    BY <1>2, <1>3, <1>6, <2>1, <2>2 DEF PairsOf
  <2>4. {fds[i].fd} \X fds[i].events \subseteq call'.asked
    BY <1>5, <2>1 DEF Asked
  <2>5. OnTheWay(i)'
    BY <1>6, <2>1, <2>2, <2>3, <2>4 DEF OnTheWay
  <2> QED
    BY <1>6, <2>1, <2>3, <2>5 DEF Supported
<1> QED
  BY <1>2, <1>3, <1>9, <1>10, <1>11 DEF XpollInv

\* select() finds what it is asked for and is ready.
LEMMA SelectFoundStep ==
  ASSUME XpollInv, SelectFound
  PROVE  XpollInv'
<1>1. /\ XpollShape /\ XpollCallInv /\ HeldInv /\ pc = "select" /\ pc' = "fill"
      /\ UNCHANGED <<open, ready, fds, held, answer, reported>>
      /\ call' = [call EXCEPT !.asked = Select(call.asked, ready)]
  BY DEF XpollInv, SelectFound
<1>2. /\ call'.asked = Select(call.asked, ready) /\ call'.max = call.max /\ call'.count = call.count
      /\ DOMAIN call' = DOMAIN call
  BY <1>1 DEF XpollShape
<1>3. XpollShape'
  BY <1>1, <1>2 DEF XpollShape
<1>4. XpollCallInv'
  BY <1>1, <1>2 DEF XpollCallInv, Select
<1>5. HeldInv'
  <2> SUFFICES ASSUME NEW fd \in held
               PROVE  fd \in open /\ \E i \in DOMAIN fds : fds[i].fd = fd /\ OnTheWay(i)'
    BY <1>1 DEF HeldInv
  <2>1. PICK i \in DOMAIN fds : fds[i].fd = fd /\ OnTheWay(i)
    BY <1>1 DEF HeldInv
  <2>2. /\ fds[i].revents = {} /\ PairsOf(i) \subseteq call.asked
        /\ Select(PairsOf(i), ready) # {}
    BY <1>1, <2>1 DEF OnTheWay
  <2>3. call'.asked \cap PairsOf(i) # {}
    BY <1>2, <2>2 DEF Select
  <2>4. PairsOf(i)' = PairsOf(i)
    BY <1>1 DEF PairsOf
  <2>5. OnTheWay(i)'
    BY <1>1, <2>2, <2>3, <2>4 DEF OnTheWay
  <2> QED
    BY <1>1, <2>1, <2>5 DEF HeldInv
<1> QED
  BY <1>3, <1>4, <1>5 DEF XpollInv

\* There are no more indices than entries.
LEMMA CountBound ==
  ASSUME NEW n \in Nat, NEW R \in SUBSET (1..n)
  PROVE  Cardinality(R) \in Nat /\ Cardinality(R) <= n
<1>1. 1 \in Int /\ n \in Int /\ (1 > n => n = 0)
  OBVIOUS
<1>2. IsFiniteSet(1..n) /\ Cardinality(1..n) = n
  BY <1>1, FS_Interval
<1> QED
  BY <1>2, FS_Subset, FS_CardinalityType

\* What select() found becomes the events of its entry.
LEMMA FillStep ==
  ASSUME XpollInv, FillResults
  PROVE  XpollInv' /\ MapOf(fds') = MapOf(fds) /\ FdsOf(fds') = FdsOf(fds)
<1> DEFINE t == Fill(fds, call.asked)
<1>1. /\ XpollShape /\ XpollCallInv /\ HeldInv /\ pc = "fill" /\ pc' = "scan"
      /\ UNCHANGED <<open, ready, held, answer, reported>>
      /\ call' = [call EXCEPT !.count = Cardinality(Ready(fds'))]
      /\ fds' = t
  BY DEF XpollInv, FillResults
<1>2. Good(fds) /\ Len(fds) <= FD_SETSIZE
  BY <1>1 DEF XpollShape
<1>3. \A r \in call.asked : \A i \in DOMAIN fds : fds[i].fd = r[1] => r[2] \in fds[i].events
  BY <1>1 DEF XpollCallInv
<1>4. /\ Good(t) /\ Len(t) = Len(fds) /\ DOMAIN t = DOMAIN fds
      /\ FdsOf(t) = FdsOf(fds) /\ MapOf(t) = MapOf(fds)
      /\ \A i \in DOMAIN fds :
           /\ t[i].fd = fds[i].fd /\ t[i].events = fds[i].events
           /\ fds[i].fd >= 0 /\ fds[i].revents = {} =>
                t[i].revents = {e \in Events : <<fds[i].fd, e>> \in call.asked}
  BY <1>2, <1>3, FillIs
<1> HIDE DEF t
<1>5. /\ call'.count = Cardinality(Ready(fds')) /\ call'.max = call.max
      /\ DOMAIN call' = DOMAIN call
  BY <1>1 DEF XpollShape
<1>6. call'.count \in Nat /\ call'.count <= Len(fds')
  <2>1. Len(fds') \in Nat /\ DOMAIN fds' = 1..Len(fds')
    BY <1>1, <1>4, GoodIs
  <2>2. Ready(fds') \subseteq 1..Len(fds')
    BY <2>1 DEF Ready
  <2> DEFINE n == Len(fds')
             R == Ready(fds')
  <2> HIDE DEF n, R
  <2>3. Cardinality(R) \in Nat /\ Cardinality(R) <= n
    BY <2>1, <2>2, CountBound DEF n, R
  <2> QED
    BY <1>5, <2>3 DEF n, R
<1>7. XpollShape'
  BY <1>1, <1>4, <1>5, <1>6 DEF XpollShape
<1>8. XpollCallInv'
  BY <1>1, <1>5 DEF XpollCallInv
<1>9. HeldInv'
  <2> SUFFICES ASSUME NEW fd \in held
               PROVE  fd \in open /\ \E i \in DOMAIN fds' : fds'[i].fd = fd /\ OnTheWay(i)'
    BY <1>1 DEF HeldInv
  <2>1. fd \in open /\ \E i \in DOMAIN fds : fds[i].fd = fd /\ OnTheWay(i)
    BY <1>1 DEF HeldInv
  <2>2. PICK i \in DOMAIN fds : fds[i].fd = fd /\ OnTheWay(i)
    BY <2>1
  <2>3. fds[i].revents = {} /\ call.asked \cap PairsOf(i) # {} /\ fd >= 0
    BY <1>1, <2>1, <2>2 DEF OnTheWay, XpollShape
  <2>4. PICK e \in fds[i].events : <<fds[i].fd, e>> \in call.asked
    BY <2>3 DEF PairsOf
  <2>5. e \in Events
    <3>1. fds[i].events \in Asks
      BY <1>2, GoodIs
    <3> QED
      BY <2>4, <3>1, XpollAssumption
  <2>6. fds'[i].revents # {}
    BY <1>1, <1>4, <2>2, <2>3, <2>4, <2>5
  <2>7. OnTheWay(i)'
    BY <1>1, <2>6 DEF OnTheWay
  <2> QED
    BY <1>1, <1>4, <2>1, <2>2, <2>7
<1> QED
  BY <1>1, <1>4, <1>7, <1>8, <1>9 DEF XpollInv

\* The others change what is open and ready; what they close or make wait is no longer held.
LEMMA OthersStep ==
  ASSUME XpollInv, UNCHANGED <<fds, pc, call, answer, reported>>,
         open' \subseteq {fd \in Fds : fd >= 0}, ready' \subseteq Changing, held' \subseteq held,
         \A fd \in held' : fd \in open => fd \in open',
         \A fd \in held' : \A e : <<fd, e>> \in ready => <<fd, e>> \in ready'
  PROVE  XpollInv'
<1>1. XpollShape /\ XpollCallInv /\ HeldInv
  BY DEF XpollInv
<1>2. XpollShape'
  BY <1>1 DEF XpollShape
<1>3. XpollCallInv'
  BY <1>1 DEF XpollCallInv
<1>4. HeldInv'
  <2> SUFFICES ASSUME pc \in {"select", "fill", "scan"}, NEW fd \in held'
               PROVE  fd \in open' /\ \E i \in DOMAIN fds : fds[i].fd = fd /\ OnTheWay(i)'
    BY DEF HeldInv
  <2>1. fd \in open /\ \E i \in DOMAIN fds : fds[i].fd = fd /\ OnTheWay(i)
    BY <1>1 DEF HeldInv
  <2>2. PICK i \in DOMAIN fds : fds[i].fd = fd /\ OnTheWay(i)
    BY <2>1
  <2>3. PairsOf(i)' = PairsOf(i)
    BY DEF PairsOf
  <2>4. Select(PairsOf(i), ready) # {} => Select(PairsOf(i), ready') # {}
    <3> SUFFICES ASSUME NEW r \in Select(PairsOf(i), ready)
                 PROVE  r \in Select(PairsOf(i), ready')
      OBVIOUS
    <3>1. r \in PairsOf(i) /\ r = <<fd, r[2]>> /\ (Type[r[1]] = "file" \/ r \in ready)
      BY <2>2 DEF Select, PairsOf
    <3>2. r \in ready => r \in ready'
      BY <3>1
    <3> QED
      BY <3>1, <3>2 DEF Select
  <2>5. OnTheWay(i)'
    BY <2>2, <2>3, <2>4 DEF OnTheWay
  <2> QED
    BY <2>1, <2>2, <2>5
<1> QED
  BY <1>2, <1>3, <1>4 DEF XpollInv

LEMMA BecomeStep ==
  ASSUME XpollInv, NEW r \in Changing, Become(r)
  PROVE  XpollInv'
<1>1. /\ open \subseteq {fd \in Fds : fd >= 0} /\ ready \subseteq Changing
  BY DEF XpollInv, XpollShape
<1>2. UNCHANGED <<open, fds, pc, call, answer, reported>>
  BY DEF Become
<1>3. CASE r \in ready
  <2>1. ready' = ready \ {r} /\ held' = held \ {r[1]}
    BY <1>3 DEF Become
  <2>2. \A fd \in held' : \A e : <<fd, e>> \in ready => <<fd, e>> \in ready'
    BY <2>1
  <2>3. ready' \subseteq Changing /\ held' \subseteq held
    BY <1>1, <2>1
  <2> QED
    BY <1>1, <1>2, <2>2, <2>3, OthersStep
<1>4. CASE r \notin ready
  <2>1. ready' = ready \cup {r} /\ held' = held
    BY <1>4 DEF Become
  <2>2. ready' \subseteq Changing /\ held' \subseteq held
        /\ \A fd \in held' : \A e : <<fd, e>> \in ready => <<fd, e>> \in ready'
    BY <1>1, <2>1
  <2> QED
    BY <1>1, <1>2, <2>2, OthersStep
<1> QED
  BY <1>3, <1>4

LEMMA CloseStep ==
  ASSUME XpollInv, NEW fd \in Fds, Close(fd)
  PROVE  XpollInv'
<1>1. open \subseteq {f \in Fds : f >= 0} /\ ready \subseteq Changing
  BY DEF XpollInv, XpollShape
<1>2. /\ open' = open \ {fd} /\ ready' = {r \in ready : r[1] # fd} /\ held' = held \ {fd}
      /\ UNCHANGED <<fds, pc, call, answer, reported>>
  BY DEF Close
<1>3. open' \subseteq {f \in Fds : f >= 0} /\ ready' \subseteq Changing /\ held' \subseteq held
  BY <1>1, <1>2
<1>4. \A f \in held' : f \in open => f \in open'
  BY <1>2
<1>5. \A f \in held' : \A e : <<f, e>> \in ready => <<f, e>> \in ready'
  BY <1>2
<1> QED
  BY <1>2, <1>3, <1>4, <1>5, OthersStep

LEMMA ReopenStep ==
  ASSUME XpollInv, NEW fd \in Fds, Reopen(fd)
  PROVE  XpollInv'
<1>1. open \subseteq {f \in Fds : f >= 0} /\ ready \subseteq Changing
  BY DEF XpollInv, XpollShape
<1>2. /\ fd >= 0 /\ open' = open \cup {fd}
      /\ UNCHANGED <<ready, fds, pc, call, held, answer, reported>>
  BY DEF Reopen
<1> QED
  BY <1>1, <1>2, OthersStep

LEMMA XpollStep ==
  ASSUME XpollInv, Next
  PROVE  XpollInv'
<1>1. CASE \E fd \in Fds : (\E events \in Asks : Add(fd, events)) \/ Del(fd) \/ Query(fd)
  BY <1>1, AddStep, DelStep, QueryStep
<1>2. CASE DelClosed
  BY <1>2, DelClosedStep
<1>3. CASE Wait \/ Einval \/ SelectFound \/ SelectFails \/ FillResults \/ Scan
  BY <1>3, WaitStep, EinvalStep, SelectFoundStep, FillStep, ScanStep
<1>4. CASE \E r \in Changing : Become(r)
  BY <1>4, BecomeStep
<1>5. CASE \E fd \in Fds : Close(fd) \/ Reopen(fd)
  BY <1>5, CloseStep, ReopenStep
<1> QED
  BY <1>1, <1>2, <1>3, <1>4, <1>5 DEF Next

LEMMA XpollStutter ==
  ASSUME XpollInv, UNCHANGED vars
  PROVE  XpollInv'
<1> USE DEF vars
<1>1. XpollShape'
  BY DEF XpollInv, XpollShape
<1>2. XpollCallInv'
  BY DEF XpollInv, XpollCallInv
<1>3. HeldInv'
  BY DEF XpollInv, HeldInv, OnTheWay, PairsOf
<1> QED
  BY <1>1, <1>2, <1>3 DEF XpollInv

LEMMA LibXpollInv == LibSpec => []XpollInv
<1>1. LibInit => XpollInv
  BY XpollInitInv DEF LibInit
<1>2. XpollInv /\ [LibNext]_libVars => XpollInv'
  <2> SUFFICES ASSUME XpollInv, [LibNext]_libVars
               PROVE  XpollInv'
    OBVIOUS
  <2>1. [Next]_vars
    BY DEF LibNext, libVars
  <2> QED
    BY <2>1, XpollStep, XpollStutter
<1> QED
  BY <1>1, <1>2, PTL DEF LibSpec

-----------------------------------------------------------------------------
(***************************************************************************)
(* xpoll: the array is the promised map.                                   *)
(***************************************************************************)
LEMMA SetMapIs ==
  /\ SetMap = MapOf(fds) /\ SetMap' = MapOf(fds')
BY DEF SetMap, MapOf, FdsOf

LEMMA NoFunction == \A f : DOMAIN f = {} /\ f = [x \in DOMAIN f |-> f[x]] => f = <<>>
<1>1. <<>> = [x \in {} |-> <<>>[x]]
  OBVIOUS
<1> QED
  BY <1>1

LEMMA NoResults ==
  /\ reported = <<>> => Results = <<>>
  /\ reported' = <<>> => Results' = <<>>
BY NoFunction DEF Results

\* There are as many descriptors as entries.
LEMMA FdsCount ==
  ASSUME NEW es, Good(es)
  PROVE  IsFiniteSet(FdsOf(es)) /\ Cardinality(FdsOf(es)) \in Nat /\ Cardinality(FdsOf(es)) <= Len(es)
<1> DEFINE f == [i \in 1..Len(es) |-> es[i].fd]
<1>1. Len(es) \in Nat /\ DOMAIN es = 1..Len(es)
  BY GoodIs
<1>2. f \in Surjection(1..Len(es), FdsOf(es))
  BY <1>1 DEF Surjection, FdsOf
<1>3. IsFiniteSet(1..Len(es)) /\ Cardinality(1..Len(es)) = Len(es)
  <2>1. 1 \in Int /\ Len(es) \in Int /\ (1 > Len(es) => Len(es) = 0)
    BY <1>1
  <2> QED
    BY <1>1, <2>1, FS_Interval
<1> HIDE DEF f
<1> QED
  BY <1>2, <1>3, FS_Surjection, FS_CardinalityType

LEMMA SamePromisedCardinality == \A S : Promised!Cardinality(S) = Cardinality(S)
BY DEF Promised!Cardinality, Cardinality

LEMMA AddPromised ==
  ASSUME XpollInv, NEW fd \in Fds, NEW events \in Asks, Add(fd, events)
  PROVE  Promised!Add
<1>1. Good(fds)
  BY DEF XpollInv, XpollShape
<1>2. XpollInv' /\ fds' = AddedTo(fds, fd, events)
  BY AddStep
<1>3. Good(fds') /\ Len(fds') <= FD_SETSIZE /\ FD_SETSIZE \in Nat
  BY <1>2, XpollAssumption DEF XpollInv, XpollShape
<1>4. /\ FdsOf(fds') = FdsOf(fds) \cup {fd}
      /\ MapOf(fds') = [f \in FdsOf(fds) \cup {fd} |-> IF f = fd THEN events ELSE MapOf(fds)[f]]
  <2> DEFINE g == [f \in FdsOf(fds) \cup {fd} |-> IF f = fd THEN events ELSE MapOf(fds)[f]]
             t == AddedTo(fds, fd, events)
  <2>1. FdsOf(t) = FdsOf(fds) \cup {fd} /\ MapOf(t) = g
    BY <1>1, AddMaps
  <2>2. fds' = t
    BY <1>2
  <2> HIDE DEF g, t
  <2>3. FdsOf(fds') = FdsOf(fds) \cup {fd} /\ MapOf(fds') = g
    BY <2>1, <2>2
  <2> QED
    BY <2>3 DEF g
<1>5. Cardinality(FdsOf(fds')) <= FD_SETSIZE
  <2>1. Cardinality(FdsOf(fds')) \in Nat /\ Cardinality(FdsOf(fds')) <= Len(fds')
    BY <1>3, FdsCount
  <2>2. Len(fds') \in Nat
    BY <1>3, GoodIs
  <2> QED
    BY <1>3, <2>1, <2>2
<1>6. DOMAIN SetMap = FdsOf(fds)
  BY <1>1, SetMapIs, MapIs
<1>7. /\ Promised!Cardinality(DOMAIN SetMap \cup {fd}) <= FD_SETSIZE
      /\ SetMap' = [f \in DOMAIN SetMap \cup {fd} |-> IF f = fd THEN events ELSE SetMap[f]]
  BY <1>4, <1>5, <1>6, SetMapIs, SamePromisedCardinality
<1>8. Promised!NoResult
  BY NoResults DEF Add, NoResult, Promised!NoResult, None, Promised!None
<1> QED
  BY <1>7, <1>8 DEF Promised!Add

LEMMA DeletePromised ==
  ASSUME XpollInv, Part(fds', fds), NoResult
  PROVE  Promised!Delete
<1>1. Good(fds)
  BY DEF XpollInv, XpollShape
<1>2. PICK gone \in SUBSET FdsOf(fds) : MapOf(fds') = [f \in FdsOf(fds) \ gone |-> MapOf(fds)[f]]
  BY <1>1, PartMaps
<1>3. DOMAIN SetMap = FdsOf(fds)
  BY <1>1, SetMapIs, MapIs
<1>4. gone \in SUBSET DOMAIN SetMap /\ SetMap' = [f \in DOMAIN SetMap \ gone |-> SetMap[f]]
  BY <1>2, <1>3, SetMapIs
<1>5. Promised!NoResult
  BY NoResults DEF NoResult, Promised!NoResult, None, Promised!None
<1> QED
  BY <1>4, <1>5 DEF Promised!Delete

LEMMA QueryPromised ==
  ASSUME XpollInv, NEW fd \in Fds, Query(fd)
  PROVE  Promised!Query
<1> DEFINE pos == BinSearch(fds, fd)
<1>1. Good(fds)
  BY DEF XpollInv, XpollShape
<1>2. fds \in Seq(EntrySet) /\ Sorted(fds)
  BY <1>1 DEF Good
<1>3. Found(fds, fd, pos)
  BY <1>2, BinSearchFinds
<1>4. answer' = IF pos < 0 THEN None ELSE [found |-> TRUE, events |-> fds[pos + 1].events]
  BY DEF Query
<1> HIDE DEF pos
<1>5. /\ Len(fds) \in Nat /\ DOMAIN fds = 1..Len(fds)
      /\ \A i \in DOMAIN fds : fds[i].fd \in Int
  BY <1>1, GoodIs
<1>6. DOMAIN SetMap = FdsOf(fds)
      /\ \A i \in DOMAIN fds : fds[i].fd \in FdsOf(fds) /\ SetMap[fds[i].fd] = fds[i].events
  BY <1>1, SetMapIs, MapIs
<1>7. answer' = IF fd \in DOMAIN SetMap THEN [found |-> TRUE, events |-> SetMap[fd]] ELSE None
  <2>1. CASE pos \in 0..(Len(fds) - 1) /\ fds[pos + 1].fd = fd
    <3>1. pos + 1 \in DOMAIN fds /\ ~(pos < 0)
      BY <1>5, <2>1
    <3> QED
      BY <1>4, <1>6, <2>1, <3>1
  <2>2. CASE /\ pos \in Int /\ -pos \in 1..(Len(fds) + 1)
             /\ \A i \in DOMAIN fds : (i < -pos => fds[i].fd < fd) /\ (i >= -pos => fds[i].fd > fd)
    <3>1. pos < 0
      BY <1>5, <2>2
    <3>2. fd \in Int
      BY XpollAssumption
    <3>3. \A i \in DOMAIN fds : fds[i].fd # fd
      BY <1>5, <2>2, <3>2
    <3>4. fd \notin DOMAIN SetMap
      BY <1>6, <3>3 DEF FdsOf
    <3> QED
      BY <1>4, <3>1, <3>4
  <2> QED
    BY <1>3, <2>1, <2>2 DEF Found
<1>8. Results' = <<>> /\ SetMap' = SetMap
  BY NoResults, SetMapIs DEF Query
<1> QED
  BY <1>7, <1>8 DEF Promised!Query, None, Promised!None

LEMMA WaitPromised ==
  ASSUME XpollInv, Wait
  PROVE  Promised!Report
<1>1. MapOf(fds') = MapOf(fds)
  BY WaitStep
<1>2. reported' = <<>> /\ answer' = None
  BY DEF Wait, NoResult
<1>3. DOMAIN Results' = {}
  BY <1>2 DEF Results
<1> QED
  BY <1>1, <1>2, <1>3, SetMapIs DEF Promised!Report, None, Promised!None

LEMMA MinIs ==
  ASSUME NEW a \in Nat, NEW b \in Nat
  PROVE  Min({a, b}) \in {a, b} /\ Min({a, b}) <= a /\ Min({a, b}) <= b
<1>1. \E x \in {a, b} : \A y \in {a, b} : x =< y
  OBVIOUS
<1> QED
  BY <1>1 DEF Min

\* The results are the first of the entries with events.
LEMMA ScanIs ==
  ASSUME XpollInv, Scan
  PROVE  \E h, m :
           /\ HitsOf(h, fds, Len(fds)) /\ DOMAIN h = 1..Len(h) /\ Len(h) \in Nat
           /\ m \in Nat /\ m <= Len(h) /\ (m = call.max \/ m = Len(h))
           /\ Len(reported') = m /\ DOMAIN reported' = 1..m
           /\ \A k \in 1..m : reported'[k] = h[k]
<1> DEFINE h == Hits(fds)
           m == Min({call.count, call.max})
<1>1. XpollShape /\ XpollCallInv /\ pc = "scan"
  BY DEF XpollInv, Scan
<1>2. Good(fds)
  BY <1>1 DEF XpollShape
<1>3. HitsOf(h, fds, Len(fds))
  BY <1>2, HitsAre
<1>4. reported' = SubSeq(h, 1, m)
  BY DEF Scan
<1> HIDE DEF h
<1>5. h \in Seq(EntrySet) /\ Len(h) = Cardinality({j \in 1..Len(fds) : fds[j].revents # {}})
  BY <1>3 DEF HitsOf
<1>6. Len(h) \in Nat /\ DOMAIN h = 1..Len(h) /\ \A k \in 1..Len(h) : h[k] \in EntrySet
  <2>1. h \in Seq(EntrySet)
    BY <1>5
  <2>2. Len(h) \in Nat /\ DOMAIN h = 1..Len(h)
    BY <2>1
  <2> QED
    BY <2>1, <2>2
<1>7. Len(h) = call.count
  <2>1. {j \in 1..Len(fds) : fds[j].revents # {}} = Ready(fds)
    BY <1>2, GoodIs DEF Ready
  <2> QED
    BY <1>1, <1>5, <2>1 DEF XpollCallInv
<1>8. m \in Nat /\ m <= Len(h) /\ (m = call.max \/ m = Len(h))
  <2>1. call.count \in Nat /\ call.max \in Nat
    <3>1. call.count \in Nat /\ call.max \in MaxFds \cup {0}
      BY <1>1 DEF XpollShape
    <3>2. MaxFds \subseteq Nat /\ 0 \in Nat
      BY XpollAssumption
    <3> QED
      BY <3>1, <3>2
  <2> QED
    BY <1>7, <2>1, MinIs
<1> HIDE DEF m
<1>9. reported' \in Seq(EntrySet) /\ Len(reported') = m /\ \A k \in 1..m : reported'[k] = h[k]
  <2>1. \A k \in 1..m : h[k] \in EntrySet
    <3>1. Len(h) \in Nat /\ m \in Nat /\ m <= Len(h)
      BY <1>6, <1>8
    <3>2. \A k \in 1..m : k \in 1..Len(h)
      BY <3>1
    <3> QED
      BY <1>6, <3>2
  <2>2. /\ SubSeq(h, 1, m) \in Seq(EntrySet)
        /\ Len(SubSeq(h, 1, m)) = IF 1 <= m THEN m - 1 + 1 ELSE 0
        /\ \A k \in 1..(m - 1 + 1) : SubSeq(h, 1, m)[k] = h[1 + k - 1]
    BY <1>8, <2>1, SubSeqProperties
  <2>3. m - 1 + 1 = m /\ (~(1 <= m) => m = 0)
    BY <1>8
  <2>4. \A k \in 1..m : 1 + k - 1 = k
    BY <1>8
  <2> DEFINE r == SubSeq(h, 1, m)
  <2>5. r \in Seq(EntrySet) /\ Len(r) = m /\ \A k \in 1..m : r[k] = h[k]
    BY <2>2, <2>3, <2>4
  <2> HIDE DEF r
  <2> QED
    BY <1>4, <2>5 DEF r
<1>10. DOMAIN reported' = 1..m
  BY <1>9
<1> QED
  BY <1>3, <1>6, <1>8, <1>9, <1>10

LEMMA ScanPromised ==
  ASSUME XpollInv, Scan
  PROVE  Promised!Report
<1>1. XpollShape /\ XpollCallInv /\ pc = "scan" /\ answer' = answer /\ answer = None
  BY DEF XpollInv, XpollCallInv, Scan
<1>2. Good(fds)
  BY <1>1 DEF XpollShape
<1>3. PICK h, m :
        /\ HitsOf(h, fds, Len(fds)) /\ DOMAIN h = 1..Len(h) /\ Len(h) \in Nat
        /\ m \in Nat /\ m <= Len(h)
        /\ DOMAIN reported' = 1..m
        /\ \A k \in 1..m : reported'[k] = h[k]
  BY ScanIs
<1>4. SetMap' = SetMap
  <2> DEFINE t == [i \in DOMAIN fds |-> [fds[i] EXCEPT !.revents = {}]]
  <2>1. fds' = t /\ MapOf(t) = MapOf(fds)
    BY <1>2, ClearIs DEF Scan
  <2> HIDE DEF t
  <2> QED
    BY <2>1, SetMapIs
<1>5. DOMAIN Results' = 1..m
      /\ \A k \in 1..m : Results'[k].fd = h[k].fd /\ Results'[k].revents = h[k].revents
  BY <1>3 DEF Results
<1>6. DOMAIN SetMap = FdsOf(fds)
      /\ \A i \in DOMAIN fds : fds[i].fd \in FdsOf(fds) /\ SetMap[fds[i].fd] = fds[i].events
  BY <1>2, SetMapIs, MapIs
<1>7. ASSUME NEW k \in 1..m
      PROVE  /\ Results'[k].fd \in DOMAIN SetMap
             /\ Results'[k].revents # {}
             /\ Results'[k].revents \subseteq SetMap[Results'[k].fd] \cup {"POLLNVAL"}
             /\ \A j \in 1..m : j < k => Results'[j].fd < Results'[k].fd
  <2>1. k \in DOMAIN h /\ \A j \in 1..m : j \in DOMAIN h
    BY <1>3
  <2>2. PICK i \in 1..Len(fds) : h[k] = fds[i] /\ fds[i].revents # {}
    BY <1>3, <2>1 DEF HitsOf
  <2>3. i \in DOMAIN fds /\ EntryOK(fds[i])
    BY <1>2, GoodIs
  <2>4. \A j \in 1..m : j < k => h[j].fd < h[k].fd
    BY <1>3, <2>1 DEF HitsOf
  <2> QED
    BY <1>5, <1>6, <2>2, <2>3, <2>4 DEF EntryOK
<1> QED
  BY <1>1, <1>4, <1>5, <1>7 DEF Promised!Report, None, Promised!None

LEMMA KeepPromised ==
  ASSUME MapOf(fds') = MapOf(fds), UNCHANGED <<answer, reported>>
  PROVE  UNCHANGED Promised!vars
BY SetMapIs DEF Promised!vars, Results

LEMMA XpollPromised ==
  ASSUME XpollInv, [Next]_vars
  PROVE  [Promised!Next]_(Promised!vars)
<1> USE DEF Promised!Next
<1>1. CASE UNCHANGED vars
  BY <1>1, KeepPromised DEF vars
<1>2. CASE \E fd \in Fds : (\E events \in Asks : Add(fd, events)) \/ Del(fd) \/ Query(fd)
  <2>1. PICK fd \in Fds : (\E events \in Asks : Add(fd, events)) \/ Del(fd) \/ Query(fd)
    BY <1>2
  <2>2. CASE \E events \in Asks : Add(fd, events)
    BY <2>2, AddPromised
  <2>3. CASE Del(fd)
    <3>1. Part(fds', fds) /\ NoResult
      BY <2>3, DelStep DEF Del
    <3> QED
      BY <3>1, DeletePromised
  <2>4. CASE Query(fd)
    BY <2>4, QueryPromised
  <2> QED
    BY <2>1, <2>2, <2>3, <2>4
<1>3. CASE DelClosed
  <2>1. Part(fds', fds) /\ NoResult
    BY <1>3, DelClosedStep DEF DelClosed
  <2> QED
    BY <2>1, DeletePromised
<1>4. CASE Wait
  BY <1>4, WaitPromised
<1>5. CASE Scan
  BY <1>5, ScanPromised
<1>6. CASE FillResults
  <2>1. MapOf(fds') = MapOf(fds) /\ UNCHANGED <<answer, reported>>
    BY <1>6, FillStep DEF FillResults
  <2> QED
    BY <2>1, KeepPromised
<1>7. CASE Einval \/ SelectFound \/ SelectFails
  <2>1. UNCHANGED <<fds, answer, reported>>
    BY <1>7 DEF Einval, SelectFound, SelectFails
  <2> QED
    BY <2>1, KeepPromised
<1>8. CASE (\E r \in Changing : Become(r)) \/ (\E fd \in Fds : Close(fd) \/ Reopen(fd))
  <2>1. UNCHANGED <<fds, answer, reported>>
    BY <1>8 DEF Become, Close, Reopen
  <2> QED
    BY <2>1, KeepPromised
<1> QED
  BY <1>1, <1>2, <1>3, <1>4, <1>5, <1>6, <1>7, <1>8 DEF Next

\* The sorted array implements the finite map that PollSet promises: every call and every
\* step of a waiting call is a step of the map or none.
THEOREM LibXpollIsMap == LibSpec => XpollIsMap
<1>1. LibInit => Promised!Init
  <2> SUFFICES ASSUME Init PROVE Promised!Init
    BY DEF LibInit
  <2>1. fds = <<>> /\ reported = <<>> /\ answer = None
    BY DEF Init
  <2>2. DOMAIN SetMap = {}
    BY <2>1 DEF SetMap
  <2>3. SetMap = [x \in DOMAIN SetMap |-> SetMap[x]]
    BY DEF SetMap
  <2>4. SetMap = <<>> /\ Results = <<>>
    BY <2>1, <2>2, <2>3, NoFunction, NoResults
  <2> QED
    BY <2>1, <2>4 DEF Promised!Init, None, Promised!None
<1>2. XpollInv /\ [LibNext]_libVars => [Promised!Next]_(Promised!vars)
  <2> SUFFICES ASSUME XpollInv, [LibNext]_libVars
               PROVE  [Promised!Next]_(Promised!vars)
    OBVIOUS
  <2>1. [Next]_vars
    BY DEF LibNext, libVars
  <2> QED
    BY <2>1, XpollPromised
<1> QED
  BY <1>1, <1>2, LibXpollInv, PTL DEF LibSpec, XpollIsMap, Promised!Spec

\* xpoll_wait() reports all that was ready from its beginning to its end, or as many
\* entries before it as there is room for.
THEOREM LibHeldReported == LibSpec => HeldReported
<1> DEFINE Reports(fd) ==
             \/ \E k \in DOMAIN reported' : reported'[k].fd = fd
             \/ /\ Len(reported') = call.max
                /\ \A k \in DOMAIN reported' : reported'[k].fd < fd
<1>1. ASSUME XpollInv, [LibNext]_libVars
      PROVE  [pc = "scan" /\ pc' = "out" => \A fd \in held : Reports(fd)]_vars
  <2> SUFFICES ASSUME Next, pc = "scan", pc' = "out", NEW fd \in held
               PROVE  Reports(fd)
    BY <1>1 DEF LibNext, libVars
  <2>1. Scan
    BY DEF Next, Add, Del, Query, DelClosed, Wait, Einval, SelectFound, SelectFails, FillResults,
           Become, Close, Reopen
  <2>2. PICK h, m :
          /\ HitsOf(h, fds, Len(fds)) /\ DOMAIN h = 1..Len(h) /\ Len(h) \in Nat
          /\ m \in Nat /\ m <= Len(h) /\ (m = call.max \/ m = Len(h))
          /\ Len(reported') = m /\ DOMAIN reported' = 1..m
          /\ \A k \in 1..m : reported'[k] = h[k]
    BY <1>1, <2>1, ScanIs
  <2>3. Good(fds) /\ HeldInv
    BY <1>1 DEF XpollInv, XpollShape
  <2>4. PICK i \in DOMAIN fds : fds[i].fd = fd /\ OnTheWay(i)
    BY <2>3 DEF HeldInv
  <2>5. i \in 1..Len(fds) /\ fds[i].revents # {}
    BY <2>3, <2>4, GoodIs DEF OnTheWay
  <2>6. PICK k \in DOMAIN h : h[k] = fds[i]
    BY <2>2, <2>5 DEF HitsOf
  <2>7. k \in 1..Len(h) /\ Len(h) \in Nat /\ m \in Nat /\ m <= Len(h)
    BY <2>2, <2>6
  <2>8. CASE k <= m
    <3>1. k \in DOMAIN reported' /\ reported'[k] = h[k]
      <4>1. k \in 1..m
        BY <2>7, <2>8
      <4> QED
        BY <2>2, <4>1
    <3> QED
      BY <2>4, <2>6, <3>1
  <2>9. CASE ~(k <= m)
    <3>1. m = call.max
      BY <2>2, <2>6, <2>9
    <3>2. ASSUME NEW j \in DOMAIN reported'
          PROVE  reported'[j].fd < fd
      <4>1. j \in DOMAIN h /\ j < k /\ reported'[j] = h[j]
        <5>1. j \in 1..m
          BY <2>2
        <5>2. j \in 1..Len(h) /\ j < k
          BY <2>7, <2>9, <5>1
        <5> QED
          BY <2>2, <5>1, <5>2
      <4>2. h[j].fd < h[k].fd
        BY <2>2, <2>6, <4>1 DEF HitsOf
      <4> QED
        BY <2>4, <2>6, <4>1, <4>2
    <3> QED
      BY <2>2, <3>1, <3>2
  <2> QED
    BY <2>8, <2>9
<1> QED
  BY <1>1, LibXpollInv, PTL DEF LibSpec, HeldReported

-----------------------------------------------------------------------------
(***************************************************************************)
(* The types of all parts, from their invariants.                          *)
(***************************************************************************)
LEMMA XpollTyped ==
  ASSUME XpollInv
  PROVE  TypeOK
<1>1. XpollShape
  BY DEF XpollInv
<1>2. Good(fds)
  BY <1>1 DEF XpollShape
<1>3. \A i \in DOMAIN fds :
        /\ fds[i].fd \in Fds /\ fds[i].events \in Asks
        /\ fds[i].revents \subseteq fds[i].events \cup {"POLLNVAL"}
  BY <1>2, GoodIs DEF EntryOK
<1> QED
  BY <1>1, <1>3 DEF XpollShape, TypeOK

LEMMA PipeTyped ==
  ASSUME PipeInv
  PROVE  Piping!TypeOK
<1>1. PipeShape
  BY DEF PipeInv
<1>2. \A p \in DOMAIN pipes : pipes[p] \in 0..MaxPipes
  BY <1>1, LibraryAssumption DEF PipeShape
<1>3. \A t \in PipeThreads : pipePc[t] \in {"out", "name", "create", "connect", "open", "done"}
  BY <1>1 DEF PipeShape
<1>4. \A n \in DOMAIN instances :
        /\ instances[n].by \in PipeThreads
        /\ instances[n].state \in {"created", "listening", "connected"}
  BY <1>1 DEF PipeShape
<1> QED
  BY <1>2, <1>3, <1>4 DEF Piping!TypeOK

LEMMA AliasTyped ==
  ASSUME AliasInv
  PROVE  Aliasing!TypeOK
BY LibraryAssumption DEF AliasInv, AliasShape, Aliasing!TypeOK

LEMMA LoadTyped ==
  ASSUME LoadInv
  PROVE  Loading!TypeOK
<1>1. LoadShape /\ libcx \in {"-1", Loading!DlOpen("libcx0")}
  BY DEF LoadInv, LibcxInv
<1>2. Loading!DlOpen("libcx0") \in {"NULL", "libcx0"}
  BY DEF Loading!DlOpen, Loading!Null
<1>3. Loading!Unset = "-1" /\ Loading!Null = "NULL"
  BY DEF Loading!Unset, Loading!Null
<1>4. \A file \in DOMAIN libc : libc[file] \in {"-1", "NULL", "libcn0", "libc066"}
  BY <1>1 DEF LoadShape
<1>5. \A f \in Loading!Functions :
        ptr[f] \in {"-1", "NULL", "libcx0", "std", "libcn0", "libc066", "doscalls"}
  BY <1>1 DEF LoadShape
<1>6. doscalls \in {"-1", "doscalls"} /\ raced \subseteq Loading!Functions
  BY <1>1 DEF LoadShape
<1> QED
  BY <1>1, <1>2, <1>3, <1>4, <1>5, <1>6 DEF Loading!TypeOK

\* The variables of all five parts have their types: no handle but of the DLLs, no list
\* longer than its items, no more entries than FD_SETSIZE, no count above the entries.
THEOREM LibTypesOK == LibSpec => []TypesOK
<1>1. XpollInv /\ LoadInv /\ ListInv /\ PipeInv /\ AliasInv => TypesOK
  BY XpollTyped, LoadTyped, ListTyped, PipeTyped, AliasTyped DEF TypesOK
<1> QED
  BY <1>1, LibXpollInv, LibLoadInv, LibListInv, LibPipeInv, LibAliasInv, PTL
=============================================================================
