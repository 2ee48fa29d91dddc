------------------------------- MODULE Select -------------------------------
(***************************************************************************)
(* network/select.c: select() for files, named pipes and sockets.          *)
(*                                                                         *)
(* One thread calls select() again and again.  A pipe tells by a kernel    *)
(* event that it became ready; sockets are watched by the select() of the  *)
(* C library, in a second thread when there are pipes too.  The caller     *)
(* waits for the events of the pipes and of that thread together, and      *)
(* stops the thread by so_cancel() of a socket added for that.             *)
(*                                                                         *)
(* The second thread works on the socket sets, the event and the arguments *)
(* in the frame of the caller.  Each kernel call that can matter to the    *)
(* order of the two threads and of the data that arrives is a step.        *)
(***************************************************************************)
EXTENDS Naturals, FiniteSets

CONSTANTS
  RPipes, WPipes,  \* pipes watched for data, and for space
  Files, Socks,    \* regular files, sockets
  Modes,           \* "wait", "timed", "poll": no timeout, some, none at all
  Faults           \* what may fail: see below

\* "setfd": a descriptor is of another kind.  "rpipe", "wpipe", "hev",
\* "socket", "mux", "add", "thread": that object cannot be made.  "intr": a
\* signal ends the wait.  "sock": the select() of the C library fails.
FaultKinds == {"setfd", "rpipe", "wpipe", "hev", "socket", "mux", "add",
               "thread", "intr", "sock"}

Pipes == RPipes \cup WPipes
Fds == Pipes \cup Files \cup Socks

ASSUME SelectAssumption ==
  /\ RPipes \cap WPipes = {} /\ Pipes \cap (Files \cup Socks) = {}
  /\ Files \cap Socks = {}
  /\ {"cancelsock", "hevSock", "hmux"} \cap Fds = {}
  /\ Modes \subseteq {"wait", "timed", "poll"}
  /\ Faults \subseteq FaultKinds

VARIABLES
  ready,      \* the descriptors that are ready now
  event,      \* the pipes whose event is posted
  open,       \* open objects: the events of pipes, hevSock, cancelsock, hmux
  pc,         \* where the caller is
  ask,        \* the descriptors it asked for
  mode,       \* its timeout
  todo,       \* pipes that checkpipesems() still has to look at
  avail,      \* what it knows about the first of them
  found,      \* pipes and sockets seen ready
  sockSet,    \* the socket sets, cancelsock included
  hevSock,    \* hevSock is posted
  wsaErr,     \* wsa.err # 0
  cancelled,  \* so_cancel( cancelsock ) was called
  thr,        \* where the socket thread is
  copy,       \* the sets it waits for
  ret,        \* result of the last call
  out,        \* the descriptors it reported
  had, held   \* ghosts: asked for and ready some time of the call; all the time
              \* of it, as far as the select() of the C library answered

caller == <<pc, ask, mode>>
check == <<todo, avail>>
shared == <<sockSet, hevSock, wsaErr, cancelled>>
thread == <<thr, copy>>
result == <<ret, out>>
ghost == <<had, held>>
vars == <<ready, event, open, pc, ask, mode, todo, avail, found, sockSet, hevSock,
          wsaErr, cancelled, thr, copy, ret, out, had, held>>

\* A call that may fail when f is in Faults.
Outcomes(f) == IF f \in Faults THEN BOOLEAN ELSE {TRUE}

Goto(l) == pc' = l /\ UNCHANGED <<ask, mode>>

Init ==
  /\ ready = Files /\ event = {} /\ open = {}
  /\ pc = "idle" /\ ask = {} /\ mode = "poll"
  /\ todo = {} /\ avail = FALSE /\ found = {}
  /\ sockSet = {} /\ hevSock = FALSE /\ wsaErr = FALSE /\ cancelled = FALSE
  /\ thr = "none" /\ copy = {}
  /\ ret = "none" /\ out = {} /\ had = {} /\ held = {}

(***************************************************************************)
(* The other ends of the pipes and sockets, and other readers.  The kernel *)
(* posts the event of a pipe when the pipe becomes ready.                  *)
(***************************************************************************)
BecomeReady(f) ==
  /\ f \notin ready
  /\ ready' = ready \cup {f}
  /\ event' = IF f \in open THEN event \cup {f} ELSE event
  /\ had' = IF f \in ask THEN had \cup {f} ELSE had
  /\ UNCHANGED <<open, caller, check, found, shared, thread, result, held>>

Drain(f) ==
  /\ f \in ready
  /\ ready' = ready \ {f}
  /\ held' = held \ {f}
  /\ UNCHANGED <<event, open, caller, check, found, shared, thread, result, had>>

(***************************************************************************)
(* Setting up the call.                                                    *)
(***************************************************************************)

\* The descriptors are sorted by their kind; an unknown kind ends the call.
\* A call starts when the thread of an earlier one is gone.
Call(w, m) ==
  /\ pc = "idle" /\ thr \in {"none", "ended"}
  /\ ask' = w /\ mode' = m
  /\ had' = w \cap ready /\ held' = w \cap ready
  /\ found' = {} /\ out' = {} /\ todo' = {} /\ avail' = FALSE
  /\ sockSet' = w \cap Socks
  /\ hevSock' = FALSE /\ wsaErr' = FALSE /\ cancelled' = FALSE
  /\ thr' = "none" /\ copy' = {}
  /\ \E ok \in Outcomes("setfd") :
       IF ok THEN pc' = "rpipe" /\ ret' = "none"
             ELSE pc' = "idle" /\ ret' = "error"
  /\ UNCHANGED <<ready, event, open>>

\* initpipesems(): the events of the pipes of S, not posted, or none of them.
InitPipeSems(S) ==
  open' = open \cup S /\ event' = event \ S

RPipeSems ==
  /\ pc = "rpipe"
  /\ \E ok \in Outcomes("rpipe") :
       IF ok \/ ask \cap RPipes = {}
         THEN InitPipeSems(ask \cap RPipes) /\ Goto("wpipe") /\ UNCHANGED ret
         ELSE ret' = "error" /\ Goto("idle") /\ UNCHANGED <<open, event>>
  /\ UNCHANGED <<ready, check, found, shared, thread, out, ghost>>

\* Mutant: the failure for the writers returns like that for the readers.
WPipeReturns ==
  /\ pc = "wpipe"
  /\ \E ok \in Outcomes("wpipe") :
       IF ok \/ ask \cap WPipes = {}
         THEN /\ InitPipeSems(ask \cap WPipes)
              /\ todo' = ask \cap Pipes
              /\ Goto("query") /\ UNCHANGED ret
         ELSE ret' = "error" /\ Goto("idle") /\ UNCHANGED <<open, event, todo>>
  /\ UNCHANGED <<ready, avail, found, shared, thread, out, ghost>>

WPipeSems ==
  /\ pc = "wpipe"
  /\ \E ok \in Outcomes("wpipe") :
       IF ok \/ ask \cap WPipes = {}
         THEN /\ InitPipeSems(ask \cap WPipes)
              /\ todo' = ask \cap Pipes
              /\ Goto("query") /\ UNCHANGED ret
         ELSE ret' = "error" /\ Goto("cleanup") /\ UNCHANGED <<open, event, todo>>
  /\ UNCHANGED <<ready, avail, found, shared, thread, out, ghost>>

(***************************************************************************)
(* checkpipesems( pending ): query the pipe, reset its event, post it      *)
(* again if the pipe was ready, see whether it is posted.                  *)
(***************************************************************************)
First == CHOOSE p \in todo : (todo \cap RPipes # {}) => p \in RPipes

Query ==
  /\ pc = "query"
  /\ IF todo = {} THEN Goto("hev") /\ UNCHANGED avail
                  ELSE Goto("reset") /\ avail' = (First \in ready)
  /\ UNCHANGED <<ready, event, open, todo, found, shared, thread, result, ghost>>

Reset ==
  /\ pc = "reset"
  /\ event' = event \ {First}
  /\ Goto("repost")
  /\ UNCHANGED <<ready, open, check, found, shared, thread, result, ghost>>

Repost ==
  /\ pc = "repost"
  /\ event' = IF avail THEN event \cup {First} ELSE event
  /\ found' = IF First \in event' THEN found \cup {First} ELSE found
  /\ todo' = todo \ {First}
  /\ Goto("query")
  /\ UNCHANGED <<ready, open, avail, shared, thread, result, ghost>>

(***************************************************************************)
(* The sockets.                                                            *)
(***************************************************************************)
\* hevSock and then cancelsock are made.
SockObjects ==
  /\ pc = "hev"
  /\ \E hev \in Outcomes("hev"), sock \in Outcomes("socket") :
       IF ask \cap Socks = {} THEN Goto("decide") /\ UNCHANGED <<open, ret>>
       ELSE /\ open' = open \cup (IF hev THEN {"hevSock"} ELSE {})
                            \cup (IF hev /\ sock THEN {"cancelsock"} ELSE {})
            /\ IF hev /\ sock THEN Goto("socks") /\ UNCHANGED ret
                             ELSE Goto("cleanup") /\ ret' = "error"
  /\ UNCHANGED <<ready, event, check, found, shared, thread, out, ghost>>

\* Mutant: sockets are looked at only when no pipe is ready.
SocksUnlessPipes ==
  /\ pc = "socks"
  /\ \E ok \in Outcomes("sock") :
       /\ found' = IF ok /\ found = {} THEN ask \cap Socks \cap ready ELSE found
       /\ held' = IF ok THEN held ELSE held \ Socks
  /\ Goto("decide")
  /\ UNCHANGED <<ready, event, open, check, shared, thread, result, had>>

\* _std_select() without waiting; its failure is the same as no event.
PollSocks ==
  /\ pc = "socks"
  /\ \E ok \in Outcomes("sock") :
       /\ found' = IF ok THEN found \cup (ask \cap Socks \cap ready) ELSE found
       /\ held' = IF ok THEN held ELSE held \ Socks
  /\ Goto("decide")
  /\ UNCHANGED <<ready, event, open, check, shared, thread, result, had>>

\* Pending events, files among them, end the call; so does the end of an
\* empty timeout.
Decide ==
  /\ pc = "decide"
  /\ IF found # {} \/ ask \cap Files # {}
       THEN Goto("merge") /\ found' = found \cup (ask \cap Files)
       ELSE Goto(IF mode = "poll" THEN "merge" ELSE "mux") /\ UNCHANGED found
  /\ sockSet' = IF mode = "poll" \/ found # {} \/ ask \cap Files # {} THEN {} ELSE sockSet
  /\ UNCHANGED <<ready, event, open, check, hevSock, wsaErr, cancelled, thread, result, ghost>>

(***************************************************************************)
(* Waiting.                                                                *)
(***************************************************************************)

\* The mux semaphore, with the events of the pipes and of the sockets.
CreateMux ==
  /\ pc = "mux"
  /\ \E ok \in Outcomes("mux"), added \in Outcomes("add") :
       /\ open' = IF ok THEN open \cup {"hmux"} ELSE open
       /\ IF ok /\ added
            THEN Goto("start") /\ UNCHANGED ret
            ELSE ret' = "error" /\ Goto(IF ok THEN "closemux" ELSE "cleanup")
  /\ UNCHANGED <<ready, event, check, found, shared, thread, out, ghost>>

\* The sockets are watched in a thread; without pipes, by the caller itself,
\* which waits no more after that.
StartSocks ==
  /\ pc = "start"
  /\ IF ask \cap Socks = {}
       THEN Goto("wait") /\ UNCHANGED <<sockSet, thr, ret>>
       ELSE /\ sockSet' = sockSet \cup {"cancelsock"}
            /\ \E ok \in Outcomes("thread") :
                 IF ask \cap Pipes = {}
                   THEN thr' = "start" /\ Goto("inline") /\ UNCHANGED ret
                   ELSE IF ok
                     THEN thr' = "start" /\ Goto("wait") /\ UNCHANGED ret
                     ELSE ret' = "error" /\ Goto("closemux") /\ UNCHANGED thr
  /\ UNCHANGED <<ready, event, open, check, found, hevSock, wsaErr, cancelled,
                 copy, out, ghost>>

\* waitsocks(): _std_select() of the sets as they are when it begins.
SockBegin ==
  /\ thr = "start"
  /\ thr' = "select" /\ copy' = sockSet
  /\ UNCHANGED <<ready, event, open, caller, check, found, shared, result, ghost>>

\* It returns with the sockets that are ready;
SockReady ==
  /\ thr = "select"
  /\ copy \cap ready # {}
  /\ sockSet' = copy \cap ready
  /\ thr' = "post"
  /\ UNCHANGED <<ready, event, open, caller, check, found, hevSock, wsaErr,
                 cancelled, copy, result, ghost>>

\* with an error when it is cancelled, when the socket is closed below it, or
\* when it fails, and leaves the sets as they are;
SockError ==
  /\ thr = "select"
  /\ \/ "cancelsock" \in copy /\ (cancelled \/ "cancelsock" \notin open)
     \/ "sock" \in Faults
  /\ wsaErr' = TRUE
  /\ thr' = "post"
  /\ UNCHANGED <<ready, event, open, caller, check, found, sockSet, hevSock,
                 cancelled, copy, result, ghost>>

\* or with nothing at the end of its timeout.
SockTimeout ==
  /\ thr = "select"
  /\ mode = "timed"
  /\ copy \cap ready = {}
  /\ sockSet' = {}
  /\ thr' = "ended"
  /\ UNCHANGED <<ready, event, open, caller, check, found, hevSock, wsaErr,
                 cancelled, copy, result, ghost>>

SockPost ==
  /\ thr = "post"
  /\ hevSock' = ("hevSock" \in open)
  /\ thr' = "ended"
  /\ UNCHANGED <<ready, event, open, caller, check, found, sockSet, wsaErr,
                 cancelled, copy, result, ghost>>

SockStep == SockBegin \/ SockReady \/ SockError \/ SockTimeout \/ SockPost

\* The caller has waited for the sockets itself.
Inline ==
  /\ pc = "inline"
  /\ thr = "ended"
  /\ Goto("wait")
  /\ UNCHANGED <<ready, event, open, check, found, shared, thread, result, ghost>>

Posted == event \cap ask # {} \/ hevSock

\* DosWaitMuxWaitSem(): an event is posted,
Awake ==
  /\ pc = "wait"
  /\ Posted
  /\ Goto(IF ask \cap Socks = {} THEN "pipes" ELSE "tell")
  /\ UNCHANGED <<ready, event, open, check, found, shared, thread, result, ghost>>

\* Mutant: the timeout is computed for the sockets only.
TimeoutIfSocks ==
  /\ pc = "wait"
  /\ ~Posted
  /\ mode = "timed" /\ ask \cap Socks # {}
  /\ ret' = "timeout"
  /\ Goto("closemux")
  /\ UNCHANGED <<ready, event, open, check, found, shared, thread, out, ghost>>

\* or the time is over: at once when the caller has waited for the sockets,
Timeout ==
  /\ pc = "wait"
  /\ ~Posted
  /\ mode = "timed" \/ ask \cap Pipes = {}
  /\ ret' = "timeout"
  /\ Goto("closemux")
  /\ UNCHANGED <<ready, event, open, check, found, shared, thread, out, ghost>>

\* or a signal came.
Interrupt ==
  /\ pc = "wait"
  /\ "intr" \in Faults
  /\ ret' = "error"
  /\ Goto("closemux")
  /\ UNCHANGED <<ready, event, open, check, found, shared, thread, out, ghost>>

\* Unless the event of the sockets is posted: unblock the thread;
Tell ==
  /\ pc = "tell"
  /\ IF hevSock
       THEN /\ ret' = IF wsaErr THEN "error" ELSE ret
            /\ Goto("join") /\ UNCHANGED cancelled
       ELSE Goto("clear") /\ cancelled' = TRUE /\ UNCHANGED ret
  /\ UNCHANGED <<ready, event, open, check, found, sockSet, hevSock, wsaErr,
                 thread, out, ghost>>

\* Mutant: the sets are not cleared.
KeepSets ==
  /\ pc = "clear"
  /\ Goto("join")
  /\ UNCHANGED <<ready, event, open, check, found, shared, thread, result, ghost>>

\* no socket has an event, and
Clear ==
  /\ pc = "clear"
  /\ sockSet' = {}
  /\ Goto("join")
  /\ UNCHANGED <<ready, event, open, check, found, hevSock, wsaErr, cancelled,
                 thread, result, ghost>>

\* Mutant: the end of the thread is not awaited.
NoJoin ==
  /\ pc = "join"
  /\ Goto("pipes")
  /\ UNCHANGED <<ready, event, open, check, found, shared, thread, result, ghost>>

\* DosWaitThread().
Join ==
  /\ pc = "join"
  /\ thr = "ended"
  /\ Goto("pipes")
  /\ UNCHANGED <<ready, event, open, check, found, shared, thread, result, ghost>>

\* checkpipesems( ..., 0 ): the pipes whose events are posted.
PeekPipes ==
  /\ pc = "pipes"
  /\ found' = IF ret = "error" THEN found ELSE event \cap ask
  /\ Goto("closemux")
  /\ UNCHANGED <<ready, event, open, check, shared, thread, result, ghost>>

CloseMux ==
  /\ pc = "closemux"
  /\ open' = open \ {"hmux"}
  /\ Goto(IF ret = "none" THEN "merge" ELSE "cleanup")
  /\ UNCHANGED <<ready, event, check, found, shared, thread, result, ghost>>

\* The sets of the four kinds together are the result.
Merge ==
  /\ pc = "merge"
  /\ out' = found \cup sockSet
  /\ ret' = IF out' = {} THEN "timeout" ELSE "ready"
  /\ Goto("cleanup")
  /\ UNCHANGED <<ready, event, open, check, found, shared, thread, ghost>>

Cleanup ==
  /\ pc = "cleanup"
  /\ open' = open \ ({"cancelsock", "hevSock"} \cup Pipes)
  /\ Goto("idle")
  /\ UNCHANGED <<ready, event, check, found, shared, thread, result, ghost>>

CallerStep ==
  \/ RPipeSems \/ WPipeSems \/ Query \/ Reset \/ Repost
  \/ SockObjects \/ PollSocks \/ Decide \/ CreateMux \/ StartSocks
  \/ Inline \/ Awake \/ Timeout \/ Tell \/ Clear \/ Join \/ PeekPipes \/ CloseMux
  \/ Merge \/ Cleanup

Next ==
  \/ \E f \in Pipes \cup Socks : BecomeReady(f) \/ Drain(f)
  \/ \E w \in SUBSET Fds \ {{}}, m \in Modes : Call(w, m)
  \/ CallerStep
  \/ Interrupt
  \/ SockStep

Spec == Init /\ [][Next]_vars

(***************************************************************************)
(* Both threads run while they can, and a timeout comes.  Nothing makes a  *)
(* descriptor ready, a signal come or the program call.                    *)
(***************************************************************************)
FairSpec == Spec /\ WF_vars(CallerStep) /\ WF_vars(SockStep)

(***************************************************************************)
(* Properties.                                                             *)
(***************************************************************************)
TypeOK ==
  /\ ready \subseteq Fds /\ Files \subseteq ready
  /\ event \subseteq Pipes
  /\ open \subseteq Pipes \cup {"hevSock", "cancelsock", "hmux"}
  /\ pc \in {"idle", "rpipe", "wpipe", "query", "reset", "repost", "hev",
             "socks", "decide", "mux", "start", "inline", "wait", "tell",
             "clear", "join", "pipes", "closemux", "merge", "cleanup"}
  /\ ask \subseteq Fds /\ mode \in {"wait", "timed", "poll"}
  /\ todo \subseteq Pipes /\ avail \in BOOLEAN /\ found \subseteq Fds
  /\ sockSet \subseteq Socks \cup {"cancelsock"}
  /\ copy \subseteq Socks \cup {"cancelsock"}
  /\ hevSock \in BOOLEAN /\ wsaErr \in BOOLEAN /\ cancelled \in BOOLEAN
  /\ thr \in {"none", "start", "select", "post", "ended"}
  /\ ret \in {"none", "ready", "timeout", "error"}
  /\ out \subseteq Fds
  /\ had \subseteq ask /\ held \subseteq had

Returned == pc = "idle" /\ ret \in {"ready", "timeout"}

\* A successful select() reports no descriptor that was not asked for, or that
\* was not ready at any time of the call: a read that follows would block.  The
\* sockets of the second thread, so_cancel() and FD_ZERO() come together here.
ReportedWereReady == Returned => out \subseteq had

\* It reports every descriptor that was ready all through the call, whatever
\* its kind: an event of one kind does not hide those of the others.
HeldReported == Returned => held \subseteq out

\* Between two calls no event semaphore, mux semaphore or socket of select() is
\* left open, on each of its ways out.
ResourcesReleased == pc = "idle" => open = {}

\* When select() reports descriptors, the thread that writes to its socket sets
\* and to its frame has ended: the result cannot change after it was merged.
ResultsStable == (pc = "idle" /\ ret = "ready") => thr \in {"none", "ended"}

\* A call with a timeout returns, whatever the other ends do and in whatever
\* order the two threads run.
TimedReturns == (pc # "idle" /\ mode # "wait") ~> pc = "idle"

\* What the comment at so_cancel() says, "unblock on select()": the thread
\* ends after it, and so does the wait for the thread.
JoinEnds == pc = "join" ~> pc # "join"
=============================================================================
