---------------------------- MODULE Select_proofs ----------------------------
(***************************************************************************)
(* Proofs about Select for any pipes, files and sockets, any timeouts and  *)
(* any failures.                                                           *)
(***************************************************************************)
EXTENDS Select, TLAPS

Setup == {"rpipe", "wpipe", "query", "reset", "repost", "hev", "socks",
          "decide", "mux", "start"}
Waiting == {"inline", "wait", "tell", "clear"}
Leaving == {"join", "pipes", "closemux"}

\* What the caller has decided to return, by where it is.
RetInv ==
  /\ pc \in Setup \cup Waiting \cup {"merge"} => ret = "none"
  /\ pc \in Leaving => ret \in {"none", "timeout", "error"}
  /\ pc \in {"idle", "cleanup"} \/ out = {}

\* What is open: nothing between two calls, the mux semaphore only while the
\* caller waits, and the event of each pipe it asked for from its making on.
OpenInv ==
  /\ pc \in {"idle", "rpipe"} => open = {}
  /\ "hmux" \in open => pc \in {"start"} \cup Waiting \cup Leaving
  /\ open \cap Pipes \subseteq ask
  /\ pc = "wpipe" => ask \cap RPipes \subseteq open
  /\ pc \in (Setup \cup Waiting \cup {"join", "pipes"}) \ {"rpipe", "wpipe"}
       => ask \cap Pipes \subseteq open

\* The socket thread runs after the end of a call only if the call did not
\* report anything.
Quiet == thr \in {"none", "ended"}

ThreadInv ==
  /\ pc \in Setup => thr = "none" /\ ~hevSock
  /\ pc \in {"pipes", "merge"} => Quiet
  /\ pc = "closemux" /\ ret = "none" => Quiet
  /\ pc \in {"cleanup", "idle"} /\ ret = "ready" => Quiet
  /\ ask \cap Socks = {} => Quiet
  /\ hevSock => thr = "ended"

\* The descriptors that the caller and the socket thread know to be ready were
\* ready during this call.
ReadyInv ==
  /\ ask \cap ready \subseteq had
  /\ event \cap open \subseteq had
  /\ todo \subseteq ask \cap Pipes
  /\ pc \in {"reset", "repost"} => todo # {} /\ (avail => First \in had)
  /\ found \subseteq had /\ out \subseteq had

\* The socket sets, in the frame of the caller, hold what it asked for until
\* the thread has answered or the caller has cleared them.
SetInv ==
  /\ sockSet \subseteq (ask \cap Socks) \cup {"cancelsock"}
  /\ copy \subseteq (ask \cap Socks) \cup {"cancelsock"}
  /\ ask \cap Socks = {} => sockSet = {}
  /\ thr \in {"post", "ended"} /\ ~wsaErr => sockSet \subseteq had
  /\ pc \in Leaving /\ ret = "none" => sockSet \subseteq had
  /\ pc = "merge" => sockSet \subseteq had

\* What was ready all the time has been seen once its kind was looked at, and
\* the caller waits only when nothing was.
HeldInv ==
  /\ held \subseteq ready
  /\ pc \in {"query", "reset", "repost"} => held \cap Pipes \subseteq found \cup todo
  /\ pc \in {"reset", "repost"} /\ First \in held => avail
  /\ pc \in {"hev", "socks"} => held \cap Pipes \subseteq found
  /\ pc = "decide" => held \subseteq found \cup Files
  /\ pc = "merge" => held \subseteq found
  /\ pc \in {"mux", "start"} \cup Waiting \cup Leaving => held = {}
  /\ pc \in {"cleanup", "idle"} /\ ret \in {"ready", "timeout"} => held \subseteq out

IInv == TypeOK /\ RetInv /\ OpenInv /\ ThreadInv /\ ReadyInv /\ SetInv /\ HeldInv

-----------------------------------------------------------------------------
USE SelectAssumption DEF SelectAssumption, FaultKinds, Pipes, Fds, Goto, caller,
    check, shared, thread, result, ghost, Outcomes
USE DEF Setup, Waiting, Leaving, Quiet

\* checkpipesems() looks at one of the pipes that are left.
LEMMA FirstIsLeft == ASSUME todo # {} PROVE First \in todo
BY DEF First

\* It looks at the same one until that is done.
LEMMA FirstKept == ASSUME todo' = todo PROVE First' = First
BY DEF First

\* Each step keeps the type invariant.  Merge adds the socket sets to the result:
\* cancelsock must not be among them.
LEMMA TypeStep ==
  ASSUME TypeOK, ReadyInv, SetInv, [Next]_vars
  PROVE  TypeOK'
<1>1. ASSUME NEW w \in SUBSET Fds \ {{}}, NEW m \in Modes, Call(w, m) PROVE TypeOK'
  BY <1>1 DEF Call, TypeOK
<1>2. ASSUME NEW f \in Pipes \cup Socks, BecomeReady(f) PROVE TypeOK'
  BY <1>2 DEF BecomeReady, TypeOK
<1>3. ASSUME NEW f \in Pipes \cup Socks, Drain(f) PROVE TypeOK'
  BY <1>3 DEF Drain, TypeOK
<1>4. ASSUME RPipeSems PROVE TypeOK'
  BY <1>4 DEF RPipeSems, InitPipeSems, TypeOK
<1>5. ASSUME WPipeSems PROVE TypeOK'
  BY <1>5 DEF WPipeSems, InitPipeSems, TypeOK
<1>6. ASSUME Query PROVE TypeOK'
  <2>1. (First \in ready) \in BOOLEAN
    OBVIOUS
  <2>2. avail' \in BOOLEAN
    BY <1>6, <2>1 DEF Query, TypeOK
  <2> QED
    BY <1>6, <2>2 DEF Query, TypeOK
<1>7. ASSUME Reset PROVE TypeOK'
  BY <1>7 DEF Reset, TypeOK
<1>8. ASSUME Repost PROVE TypeOK'
  BY <1>8, FirstIsLeft DEF Repost, TypeOK, ReadyInv
<1>9. ASSUME SockObjects PROVE TypeOK'
  BY <1>9 DEF SockObjects, TypeOK
<1>10. ASSUME PollSocks PROVE TypeOK'
  BY <1>10 DEF PollSocks, TypeOK
<1>11. ASSUME Decide PROVE TypeOK'
  BY <1>11 DEF Decide, TypeOK
<1>12. ASSUME CreateMux PROVE TypeOK'
  BY <1>12 DEF CreateMux, TypeOK
<1>13. ASSUME StartSocks PROVE TypeOK'
  <2>1. sockSet' \subseteq Socks \cup {"cancelsock"}
    <3>1. sockSet \subseteq Socks \cup {"cancelsock"}
      BY DEF TypeOK
    <3>2. sockSet' \in {sockSet, sockSet \cup {"cancelsock"}}
      BY <1>13 DEF StartSocks
    <3> QED
      BY <3>1, <3>2
  <2>2. /\ pc' \in {"wait", "inline", "closemux"} /\ thr' \in {thr, "start"}
        /\ ret' \in {ret, "error"}
    BY <1>13 DEF StartSocks
  <2>3. UNCHANGED <<ready, event, open, ask, mode, todo, avail, found, hevSock,
                    wsaErr, cancelled, copy, out, had, held>>
    BY <1>13 DEF StartSocks
  <2> QED
    BY <2>1, <2>2, <2>3 DEF TypeOK
<1>14. ASSUME Inline PROVE TypeOK'
  BY <1>14 DEF Inline, TypeOK
<1>15. ASSUME Awake PROVE TypeOK'
  BY <1>15 DEF Awake, TypeOK
<1>16. ASSUME Timeout PROVE TypeOK'
  BY <1>16 DEF Timeout, TypeOK
<1>17. ASSUME Interrupt PROVE TypeOK'
  BY <1>17 DEF Interrupt, TypeOK
<1>18. ASSUME Tell PROVE TypeOK'
  <2>1. ret' \in {ret, "error"} /\ cancelled' \in BOOLEAN /\ pc' \in {"join", "clear"}
    BY <1>18 DEF Tell, TypeOK
  <2>2. UNCHANGED <<ready, event, open, ask, mode, todo, avail, found, sockSet, hevSock,
                    wsaErr, thr, copy, out, had, held>>
    BY <1>18 DEF Tell
  <2> QED
    BY <2>1, <2>2 DEF TypeOK
<1>19. ASSUME Clear PROVE TypeOK'
  BY <1>19 DEF Clear, TypeOK
<1>20. ASSUME Join PROVE TypeOK'
  BY <1>20 DEF Join, TypeOK
<1>21. ASSUME PeekPipes PROVE TypeOK'
  BY <1>21 DEF PeekPipes, TypeOK
<1>22. ASSUME CloseMux PROVE TypeOK'
  BY <1>22 DEF CloseMux, TypeOK
<1>23. ASSUME Merge PROVE TypeOK'
  BY <1>23 DEF Merge, TypeOK, SetInv
<1>24. ASSUME Cleanup PROVE TypeOK'
  BY <1>24 DEF Cleanup, TypeOK
<1>25. ASSUME SockBegin PROVE TypeOK'
  BY <1>25 DEF SockBegin, TypeOK
<1>26. ASSUME SockReady PROVE TypeOK'
  BY <1>26 DEF SockReady, TypeOK
<1>27. ASSUME SockError PROVE TypeOK'
  BY <1>27 DEF SockError, TypeOK
<1>28. ASSUME SockTimeout PROVE TypeOK'
  BY <1>28 DEF SockTimeout, TypeOK
<1>29. ASSUME SockPost PROVE TypeOK'
  BY <1>29 DEF SockPost, TypeOK
<1>30. CASE UNCHANGED vars
  BY <1>30 DEF vars, TypeOK
<1> QED
  BY <1>1, <1>2, <1>3, <1>4, <1>5, <1>6, <1>7, <1>8, <1>9, <1>10, <1>11, <1>12,
     <1>13, <1>14, <1>15, <1>16, <1>17, <1>18, <1>19, <1>20, <1>21, <1>22,
     <1>23, <1>24, <1>25, <1>26, <1>27, <1>28, <1>29, <1>30 DEF Next,
     CallerStep, SockStep

\* A result is written only where the caller leaves, and the sets of the program
\* only by Merge.
LEMMA RetStep ==
  ASSUME RetInv, [Next]_vars
  PROVE  RetInv'
<1>1. ASSUME NEW w \in SUBSET Fds \ {{}}, NEW m \in Modes, Call(w, m) PROVE RetInv'
  BY <1>1 DEF Call, RetInv
<1>2. ASSUME NEW f \in Pipes \cup Socks, BecomeReady(f) PROVE RetInv'
  BY <1>2 DEF BecomeReady, RetInv
<1>3. ASSUME NEW f \in Pipes \cup Socks, Drain(f) PROVE RetInv'
  BY <1>3 DEF Drain, RetInv
<1>4. ASSUME RPipeSems PROVE RetInv'
  BY <1>4 DEF RPipeSems, RetInv
<1>5. ASSUME WPipeSems PROVE RetInv'
  BY <1>5 DEF WPipeSems, RetInv
<1>6. ASSUME Query PROVE RetInv'
  BY <1>6 DEF Query, RetInv
<1>7. ASSUME Reset PROVE RetInv'
  BY <1>7 DEF Reset, RetInv
<1>8. ASSUME Repost PROVE RetInv'
  BY <1>8 DEF Repost, RetInv
<1>9. ASSUME SockObjects PROVE RetInv'
  BY <1>9 DEF SockObjects, RetInv
<1>10. ASSUME PollSocks PROVE RetInv'
  BY <1>10 DEF PollSocks, RetInv
<1>11. ASSUME Decide PROVE RetInv'
  BY <1>11 DEF Decide, RetInv
<1>12. ASSUME CreateMux PROVE RetInv'
  BY <1>12 DEF CreateMux, RetInv
<1>13. ASSUME StartSocks PROVE RetInv'
  BY <1>13 DEF StartSocks, RetInv
<1>14. ASSUME Inline PROVE RetInv'
  BY <1>14 DEF Inline, RetInv
<1>15. ASSUME Awake PROVE RetInv'
  BY <1>15 DEF Awake, RetInv
<1>16. ASSUME Timeout PROVE RetInv'
  BY <1>16 DEF Timeout, RetInv
<1>17. ASSUME Interrupt PROVE RetInv'
  BY <1>17 DEF Interrupt, RetInv
<1>18. ASSUME Tell PROVE RetInv'
  BY <1>18 DEF Tell, RetInv
<1>19. ASSUME Clear PROVE RetInv'
  BY <1>19 DEF Clear, RetInv
<1>20. ASSUME Join PROVE RetInv'
  BY <1>20 DEF Join, RetInv
<1>21. ASSUME PeekPipes PROVE RetInv'
  BY <1>21 DEF PeekPipes, RetInv
<1>22. ASSUME CloseMux PROVE RetInv'
  BY <1>22 DEF CloseMux, RetInv
<1>23. ASSUME Merge PROVE RetInv'
  BY <1>23 DEF Merge, RetInv
<1>24. ASSUME Cleanup PROVE RetInv'
  BY <1>24 DEF Cleanup, RetInv
<1>25. ASSUME SockBegin PROVE RetInv'
  BY <1>25 DEF SockBegin, RetInv
<1>26. ASSUME SockReady PROVE RetInv'
  BY <1>26 DEF SockReady, RetInv
<1>27. ASSUME SockError PROVE RetInv'
  BY <1>27 DEF SockError, RetInv
<1>28. ASSUME SockTimeout PROVE RetInv'
  BY <1>28 DEF SockTimeout, RetInv
<1>29. ASSUME SockPost PROVE RetInv'
  BY <1>29 DEF SockPost, RetInv
<1>30. CASE UNCHANGED vars
  BY <1>30 DEF vars, RetInv
<1> QED
  BY <1>1, <1>2, <1>3, <1>4, <1>5, <1>6, <1>7, <1>8, <1>9, <1>10, <1>11, <1>12,
     <1>13, <1>14, <1>15, <1>16, <1>17, <1>18, <1>19, <1>20, <1>21, <1>22,
     <1>23, <1>24, <1>25, <1>26, <1>27, <1>28, <1>29, <1>30 DEF Next,
     CallerStep, SockStep

\* What is open, kept by each step: CloseMux and Cleanup close on every way out
\* all that was made.
LEMMA OpenStep ==
  ASSUME TypeOK, OpenInv, [Next]_vars
  PROVE  OpenInv'
<1>1. ASSUME NEW w \in SUBSET Fds \ {{}}, NEW m \in Modes, Call(w, m) PROVE OpenInv'
  BY <1>1 DEF Call, OpenInv
<1>2. ASSUME NEW f \in Pipes \cup Socks, BecomeReady(f) PROVE OpenInv'
  BY <1>2 DEF BecomeReady, OpenInv
<1>3. ASSUME NEW f \in Pipes \cup Socks, Drain(f) PROVE OpenInv'
  BY <1>3 DEF Drain, OpenInv
<1>4. ASSUME RPipeSems PROVE OpenInv'
  BY <1>4 DEF RPipeSems, InitPipeSems, OpenInv
<1>5. ASSUME WPipeSems PROVE OpenInv'
  BY <1>5 DEF WPipeSems, InitPipeSems, OpenInv
<1>6. ASSUME Query PROVE OpenInv'
  BY <1>6 DEF Query, OpenInv
<1>7. ASSUME Reset PROVE OpenInv'
  BY <1>7 DEF Reset, OpenInv
<1>8. ASSUME Repost PROVE OpenInv'
  BY <1>8 DEF Repost, OpenInv
<1>9. ASSUME SockObjects PROVE OpenInv'
  BY <1>9 DEF SockObjects, OpenInv
<1>10. ASSUME PollSocks PROVE OpenInv'
  BY <1>10 DEF PollSocks, OpenInv
<1>11. ASSUME Decide PROVE OpenInv'
  BY <1>11 DEF Decide, OpenInv
<1>12. ASSUME CreateMux PROVE OpenInv'
  BY <1>12 DEF CreateMux, OpenInv
<1>13. ASSUME StartSocks PROVE OpenInv'
  BY <1>13 DEF StartSocks, OpenInv
<1>14. ASSUME Inline PROVE OpenInv'
  BY <1>14 DEF Inline, OpenInv
<1>15. ASSUME Awake PROVE OpenInv'
  BY <1>15 DEF Awake, OpenInv
<1>16. ASSUME Timeout PROVE OpenInv'
  BY <1>16 DEF Timeout, OpenInv
<1>17. ASSUME Interrupt PROVE OpenInv'
  BY <1>17 DEF Interrupt, OpenInv
<1>18. ASSUME Tell PROVE OpenInv'
  BY <1>18 DEF Tell, OpenInv
<1>19. ASSUME Clear PROVE OpenInv'
  BY <1>19 DEF Clear, OpenInv
<1>20. ASSUME Join PROVE OpenInv'
  BY <1>20 DEF Join, OpenInv
<1>21. ASSUME PeekPipes PROVE OpenInv'
  BY <1>21 DEF PeekPipes, OpenInv
<1>22. ASSUME CloseMux PROVE OpenInv'
  BY <1>22 DEF CloseMux, OpenInv
<1>23. ASSUME Merge PROVE OpenInv'
  BY <1>23 DEF Merge, OpenInv
<1>24. ASSUME Cleanup PROVE OpenInv'
  BY <1>24 DEF Cleanup, TypeOK, OpenInv
<1>25. ASSUME SockBegin PROVE OpenInv'
  BY <1>25 DEF SockBegin, OpenInv
<1>26. ASSUME SockReady PROVE OpenInv'
  BY <1>26 DEF SockReady, OpenInv
<1>27. ASSUME SockError PROVE OpenInv'
  BY <1>27 DEF SockError, OpenInv
<1>28. ASSUME SockTimeout PROVE OpenInv'
  BY <1>28 DEF SockTimeout, OpenInv
<1>29. ASSUME SockPost PROVE OpenInv'
  BY <1>29 DEF SockPost, OpenInv
<1>30. CASE UNCHANGED vars
  BY <1>30 DEF vars, OpenInv
<1> QED
  BY <1>1, <1>2, <1>3, <1>4, <1>5, <1>6, <1>7, <1>8, <1>9, <1>10, <1>11, <1>12,
     <1>13, <1>14, <1>15, <1>16, <1>17, <1>18, <1>19, <1>20, <1>21, <1>22,
     <1>23, <1>24, <1>25, <1>26, <1>27, <1>28, <1>29, <1>30 DEF Next,
     CallerStep, SockStep

\* Where the socket thread runs: only a call that failed or timed out leaves it
\* behind, and a new call waits for it.
LEMMA ThreadStep ==
  ASSUME RetInv, ThreadInv, [Next]_vars
  PROVE  ThreadInv'
<1>1. ASSUME NEW w \in SUBSET Fds \ {{}}, NEW m \in Modes, Call(w, m) PROVE ThreadInv'
  BY <1>1 DEF Call, ThreadInv
<1>2. ASSUME NEW f \in Pipes \cup Socks, BecomeReady(f) PROVE ThreadInv'
  BY <1>2 DEF BecomeReady, ThreadInv
<1>3. ASSUME NEW f \in Pipes \cup Socks, Drain(f) PROVE ThreadInv'
  BY <1>3 DEF Drain, ThreadInv
<1>4. ASSUME RPipeSems PROVE ThreadInv'
  BY <1>4 DEF RPipeSems, ThreadInv
<1>5. ASSUME WPipeSems PROVE ThreadInv'
  BY <1>5 DEF WPipeSems, ThreadInv
<1>6. ASSUME Query PROVE ThreadInv'
  BY <1>6 DEF Query, ThreadInv
<1>7. ASSUME Reset PROVE ThreadInv'
  BY <1>7 DEF Reset, ThreadInv
<1>8. ASSUME Repost PROVE ThreadInv'
  BY <1>8 DEF Repost, ThreadInv
<1>9. ASSUME SockObjects PROVE ThreadInv'
  BY <1>9 DEF SockObjects, ThreadInv
<1>10. ASSUME PollSocks PROVE ThreadInv'
  BY <1>10 DEF PollSocks, ThreadInv
<1>11. ASSUME Decide PROVE ThreadInv'
  BY <1>11 DEF Decide, ThreadInv
<1>12. ASSUME CreateMux PROVE ThreadInv'
  BY <1>12 DEF CreateMux, ThreadInv
<1>13. ASSUME StartSocks PROVE ThreadInv'
  BY <1>13 DEF StartSocks, ThreadInv
<1>14. ASSUME Inline PROVE ThreadInv'
  BY <1>14 DEF Inline, ThreadInv
<1>15. ASSUME Awake PROVE ThreadInv'
  BY <1>15 DEF Awake, ThreadInv
<1>16. ASSUME Timeout PROVE ThreadInv'
  BY <1>16 DEF Timeout, ThreadInv
<1>17. ASSUME Interrupt PROVE ThreadInv'
  BY <1>17 DEF Interrupt, ThreadInv
<1>18. ASSUME Tell PROVE ThreadInv'
  BY <1>18 DEF Tell, ThreadInv
<1>19. ASSUME Clear PROVE ThreadInv'
  BY <1>19 DEF Clear, ThreadInv
<1>20. ASSUME Join PROVE ThreadInv'
  BY <1>20 DEF Join, ThreadInv
<1>21. ASSUME PeekPipes PROVE ThreadInv'
  BY <1>21 DEF PeekPipes, ThreadInv
<1>22. ASSUME CloseMux PROVE ThreadInv'
  BY <1>22 DEF CloseMux, RetInv, ThreadInv
<1>23. ASSUME Merge PROVE ThreadInv'
  BY <1>23 DEF Merge, ThreadInv
<1>24. ASSUME Cleanup PROVE ThreadInv'
  BY <1>24 DEF Cleanup, ThreadInv
<1>25. ASSUME SockBegin PROVE ThreadInv'
  BY <1>25 DEF SockBegin, ThreadInv
<1>26. ASSUME SockReady PROVE ThreadInv'
  BY <1>26 DEF SockReady, ThreadInv
<1>27. ASSUME SockError PROVE ThreadInv'
  BY <1>27 DEF SockError, ThreadInv
<1>28. ASSUME SockTimeout PROVE ThreadInv'
  BY <1>28 DEF SockTimeout, ThreadInv
<1>29. ASSUME SockPost PROVE ThreadInv'
  BY <1>29 DEF SockPost, ThreadInv
<1>30. CASE UNCHANGED vars
  BY <1>30 DEF vars, ThreadInv
<1> QED
  BY <1>1, <1>2, <1>3, <1>4, <1>5, <1>6, <1>7, <1>8, <1>9, <1>10, <1>11, <1>12,
     <1>13, <1>14, <1>15, <1>16, <1>17, <1>18, <1>19, <1>20, <1>21, <1>22,
     <1>23, <1>24, <1>25, <1>26, <1>27, <1>28, <1>29, <1>30 DEF Next,
     CallerStep, SockStep

\* What is known to be ready was so in this call: an event is posted only while
\* its pipe is watched, and an old one was reset when the pipe was set up.
LEMMA ReadyStep ==
  ASSUME TypeOK, OpenInv, SetInv, ReadyInv, [Next]_vars
  PROVE  ReadyInv'
<1>1. ASSUME NEW w \in SUBSET Fds \ {{}}, NEW m \in Modes, Call(w, m) PROVE ReadyInv'
  BY <1>1 DEF Call, OpenInv, ReadyInv
<1>2. ASSUME NEW f \in Pipes \cup Socks, BecomeReady(f) PROVE ReadyInv'
  BY <1>2, FirstKept DEF BecomeReady, TypeOK, OpenInv, ReadyInv
<1>3. ASSUME NEW f \in Pipes \cup Socks, Drain(f) PROVE ReadyInv'
  BY <1>3, FirstKept DEF Drain, ReadyInv
<1>4. ASSUME RPipeSems PROVE ReadyInv'
  BY <1>4 DEF RPipeSems, InitPipeSems, ReadyInv
<1>5. ASSUME WPipeSems PROVE ReadyInv'
  BY <1>5 DEF WPipeSems, InitPipeSems, ReadyInv
<1>6. ASSUME Query PROVE ReadyInv'
  BY <1>6, FirstIsLeft, FirstKept DEF Query, ReadyInv
<1>7. ASSUME Reset PROVE ReadyInv'
  BY <1>7, FirstKept DEF Reset, ReadyInv
<1>8. ASSUME Repost PROVE ReadyInv'
  BY <1>8, FirstIsLeft DEF Repost, OpenInv, ReadyInv
<1>9. ASSUME SockObjects PROVE ReadyInv'
  BY <1>9 DEF SockObjects, TypeOK, ReadyInv
<1>10. ASSUME PollSocks PROVE ReadyInv'
  BY <1>10 DEF PollSocks, ReadyInv
<1>11. ASSUME Decide PROVE ReadyInv'
  BY <1>11 DEF Decide, TypeOK, ReadyInv
<1>12. ASSUME CreateMux PROVE ReadyInv'
  BY <1>12 DEF CreateMux, TypeOK, ReadyInv
<1>13. ASSUME StartSocks PROVE ReadyInv'
  BY <1>13 DEF StartSocks, ReadyInv
<1>14. ASSUME Inline PROVE ReadyInv'
  BY <1>14 DEF Inline, ReadyInv
<1>15. ASSUME Awake PROVE ReadyInv'
  BY <1>15 DEF Awake, ReadyInv
<1>16. ASSUME Timeout PROVE ReadyInv'
  BY <1>16 DEF Timeout, ReadyInv
<1>17. ASSUME Interrupt PROVE ReadyInv'
  BY <1>17 DEF Interrupt, ReadyInv
<1>18. ASSUME Tell PROVE ReadyInv'
  BY <1>18 DEF Tell, ReadyInv
<1>19. ASSUME Clear PROVE ReadyInv'
  BY <1>19 DEF Clear, ReadyInv
<1>20. ASSUME Join PROVE ReadyInv'
  BY <1>20 DEF Join, ReadyInv
<1>21. ASSUME PeekPipes PROVE ReadyInv'
  BY <1>21 DEF PeekPipes, TypeOK, OpenInv, ReadyInv
<1>22. ASSUME CloseMux PROVE ReadyInv'
  BY <1>22 DEF CloseMux, ReadyInv
<1>23. ASSUME Merge PROVE ReadyInv'
  BY <1>23 DEF Merge, ReadyInv, SetInv
<1>24. ASSUME Cleanup PROVE ReadyInv'
  BY <1>24 DEF Cleanup, ReadyInv
<1>25. ASSUME SockBegin PROVE ReadyInv'
  BY <1>25, FirstKept DEF SockBegin, ReadyInv
<1>26. ASSUME SockReady PROVE ReadyInv'
  BY <1>26, FirstKept DEF SockReady, ReadyInv
<1>27. ASSUME SockError PROVE ReadyInv'
  BY <1>27, FirstKept DEF SockError, ReadyInv
<1>28. ASSUME SockTimeout PROVE ReadyInv'
  BY <1>28, FirstKept DEF SockTimeout, ReadyInv
<1>29. ASSUME SockPost PROVE ReadyInv'
  BY <1>29, FirstKept DEF SockPost, ReadyInv
<1>30. CASE UNCHANGED vars
  BY <1>30, FirstKept DEF vars, ReadyInv
<1> QED
  BY <1>1, <1>2, <1>3, <1>4, <1>5, <1>6, <1>7, <1>8, <1>9, <1>10, <1>11, <1>12,
     <1>13, <1>14, <1>15, <1>16, <1>17, <1>18, <1>19, <1>20, <1>21, <1>22,
     <1>23, <1>24, <1>25, <1>26, <1>27, <1>28, <1>29, <1>30 DEF Next,
     CallerStep, SockStep

\* What the socket sets hold, kept by each step of both threads.
LEMMA SetStep ==
  ASSUME TypeOK, RetInv, ThreadInv, ReadyInv, SetInv, [Next]_vars
  PROVE  SetInv'
<1>1. ASSUME NEW w \in SUBSET Fds \ {{}}, NEW m \in Modes, Call(w, m) PROVE SetInv'
  BY <1>1 DEF Call, SetInv
<1>2. ASSUME NEW f \in Pipes \cup Socks, BecomeReady(f) PROVE SetInv'
  BY <1>2 DEF BecomeReady, SetInv
<1>3. ASSUME NEW f \in Pipes \cup Socks, Drain(f) PROVE SetInv'
  BY <1>3 DEF Drain, SetInv
<1>4. ASSUME RPipeSems PROVE SetInv'
  BY <1>4 DEF RPipeSems, SetInv
<1>5. ASSUME WPipeSems PROVE SetInv'
  BY <1>5 DEF WPipeSems, SetInv
<1>6. ASSUME Query PROVE SetInv'
  BY <1>6 DEF Query, SetInv
<1>7. ASSUME Reset PROVE SetInv'
  BY <1>7 DEF Reset, SetInv
<1>8. ASSUME Repost PROVE SetInv'
  BY <1>8 DEF Repost, SetInv
<1>9. ASSUME SockObjects PROVE SetInv'
  BY <1>9 DEF SockObjects, SetInv
<1>10. ASSUME PollSocks PROVE SetInv'
  BY <1>10 DEF PollSocks, SetInv
<1>11. ASSUME Decide PROVE SetInv'
  BY <1>11 DEF Decide, SetInv
<1>12. ASSUME CreateMux PROVE SetInv'
  BY <1>12 DEF CreateMux, SetInv
<1>13. ASSUME StartSocks PROVE SetInv'
  <2>1. /\ thr = "none" /\ ret = "none" /\ pc = "start"
        /\ pc' \in {"wait", "inline", "closemux"} /\ thr' \in {"none", "start"}
        /\ pc' = "closemux" => ret' = "error"
    BY <1>13 DEF StartSocks, ThreadInv, RetInv
  <2> QED
    BY <1>13, <2>1 DEF StartSocks, SetInv
<1>14. ASSUME Inline PROVE SetInv'
  BY <1>14 DEF Inline, SetInv
<1>15. ASSUME Awake PROVE SetInv'
  BY <1>15 DEF Awake, SetInv
<1>16. ASSUME Timeout PROVE SetInv'
  BY <1>16 DEF Timeout, SetInv
<1>17. ASSUME Interrupt PROVE SetInv'
  BY <1>17 DEF Interrupt, SetInv
<1>18. ASSUME Tell PROVE SetInv'
  BY <1>18 DEF Tell, ThreadInv, SetInv
<1>19. ASSUME Clear PROVE SetInv'
  BY <1>19 DEF Clear, SetInv
<1>20. ASSUME Join PROVE SetInv'
  BY <1>20 DEF Join, SetInv
<1>21. ASSUME PeekPipes PROVE SetInv'
  BY <1>21 DEF PeekPipes, SetInv
<1>22. ASSUME CloseMux PROVE SetInv'
  BY <1>22 DEF CloseMux, SetInv
<1>23. ASSUME Merge PROVE SetInv'
  BY <1>23 DEF Merge, SetInv
<1>24. ASSUME Cleanup PROVE SetInv'
  BY <1>24 DEF Cleanup, SetInv
<1>25. ASSUME SockBegin PROVE SetInv'
  BY <1>25 DEF SockBegin, SetInv
<1>26. ASSUME SockReady PROVE SetInv'
  BY <1>26 DEF SockReady, TypeOK, ReadyInv, SetInv
<1>27. ASSUME SockError PROVE SetInv'
  BY <1>27 DEF SockError, SetInv
<1>28. ASSUME SockTimeout PROVE SetInv'
  BY <1>28 DEF SockTimeout, SetInv
<1>29. ASSUME SockPost PROVE SetInv'
  BY <1>29 DEF SockPost, SetInv
<1>30. CASE UNCHANGED vars
  BY <1>30 DEF vars, SetInv
<1> QED
  BY <1>1, <1>2, <1>3, <1>4, <1>5, <1>6, <1>7, <1>8, <1>9, <1>10, <1>11, <1>12,
     <1>13, <1>14, <1>15, <1>16, <1>17, <1>18, <1>19, <1>20, <1>21, <1>22,
     <1>23, <1>24, <1>25, <1>26, <1>27, <1>28, <1>29, <1>30 DEF Next,
     CallerStep, SockStep

\* What was ready all the time, kept by each step: it is found where its kind is
\* looked at, and nothing takes it out again.
LEMMA HeldStep ==
  ASSUME TypeOK, HeldInv, [Next]_vars
  PROVE  HeldInv'
<1>1. ASSUME NEW w \in SUBSET Fds \ {{}}, NEW m \in Modes, Call(w, m) PROVE HeldInv'
  BY <1>1 DEF Call, HeldInv
<1>2. ASSUME NEW f \in Pipes \cup Socks, BecomeReady(f) PROVE HeldInv'
  BY <1>2, FirstKept DEF BecomeReady, HeldInv
<1>3. ASSUME NEW f \in Pipes \cup Socks, Drain(f) PROVE HeldInv'
  BY <1>3, FirstKept DEF Drain, HeldInv
<1>4. ASSUME RPipeSems PROVE HeldInv'
  BY <1>4 DEF RPipeSems, HeldInv
<1>5. ASSUME WPipeSems PROVE HeldInv'
  BY <1>5 DEF WPipeSems, TypeOK, HeldInv
<1>6. ASSUME Query PROVE HeldInv'
  BY <1>6, FirstKept DEF Query, HeldInv
<1>7. ASSUME Reset PROVE HeldInv'
  BY <1>7, FirstKept DEF Reset, HeldInv
<1>8. ASSUME Repost PROVE HeldInv'
  BY <1>8 DEF Repost, HeldInv
<1>9. ASSUME SockObjects PROVE HeldInv'
  BY <1>9 DEF SockObjects, TypeOK, HeldInv
<1>10. ASSUME PollSocks PROVE HeldInv'
  BY <1>10 DEF PollSocks, TypeOK, HeldInv
<1>11. ASSUME Decide PROVE HeldInv'
  BY <1>11 DEF Decide, TypeOK, HeldInv
<1>12. ASSUME CreateMux PROVE HeldInv'
  BY <1>12 DEF CreateMux, HeldInv
<1>13. ASSUME StartSocks PROVE HeldInv'
  BY <1>13 DEF StartSocks, HeldInv
<1>14. ASSUME Inline PROVE HeldInv'
  BY <1>14 DEF Inline, HeldInv
<1>15. ASSUME Awake PROVE HeldInv'
  BY <1>15 DEF Awake, HeldInv
<1>16. ASSUME Timeout PROVE HeldInv'
  BY <1>16 DEF Timeout, HeldInv
<1>17. ASSUME Interrupt PROVE HeldInv'
  BY <1>17 DEF Interrupt, HeldInv
<1>18. ASSUME Tell PROVE HeldInv'
  BY <1>18 DEF Tell, HeldInv
<1>19. ASSUME Clear PROVE HeldInv'
  BY <1>19 DEF Clear, HeldInv
<1>20. ASSUME Join PROVE HeldInv'
  BY <1>20 DEF Join, HeldInv
<1>21. ASSUME PeekPipes PROVE HeldInv'
  BY <1>21 DEF PeekPipes, HeldInv
<1>22. ASSUME CloseMux PROVE HeldInv'
  BY <1>22 DEF CloseMux, HeldInv
<1>23. ASSUME Merge PROVE HeldInv'
  BY <1>23 DEF Merge, HeldInv
<1>24. ASSUME Cleanup PROVE HeldInv'
  BY <1>24 DEF Cleanup, HeldInv
<1>25. ASSUME SockBegin PROVE HeldInv'
  BY <1>25, FirstKept DEF SockBegin, HeldInv
<1>26. ASSUME SockReady PROVE HeldInv'
  BY <1>26, FirstKept DEF SockReady, HeldInv
<1>27. ASSUME SockError PROVE HeldInv'
  BY <1>27, FirstKept DEF SockError, HeldInv
<1>28. ASSUME SockTimeout PROVE HeldInv'
  BY <1>28, FirstKept DEF SockTimeout, HeldInv
<1>29. ASSUME SockPost PROVE HeldInv'
  BY <1>29, FirstKept DEF SockPost, HeldInv
<1>30. CASE UNCHANGED vars
  BY <1>30, FirstKept DEF vars, HeldInv
<1> QED
  BY <1>1, <1>2, <1>3, <1>4, <1>5, <1>6, <1>7, <1>8, <1>9, <1>10, <1>11, <1>12,
     <1>13, <1>14, <1>15, <1>16, <1>17, <1>18, <1>19, <1>20, <1>21, <1>22,
     <1>23, <1>24, <1>25, <1>26, <1>27, <1>28, <1>29, <1>30 DEF Next,
     CallerStep, SockStep

\* The invariant holds at the start.
LEMMA InitIInv == Init => IInv
BY DEF Init, IInv, TypeOK, RetInv, OpenInv, ThreadInv, ReadyInv, SetInv,
   HeldInv

\* Each step keeps the invariant.
LEMMA NextIInv == IInv /\ [Next]_vars => IInv'
BY TypeStep, RetStep, OpenStep, ThreadStep, ReadyStep, SetStep, HeldStep DEF
   IInv

\* The inductive invariant: what is open, where the socket thread runs, what its
\* sets hold and what has been found, for each place where the caller can be.
THEOREM Invariance == Spec => []IInv
<1>1. Init => IInv
  BY InitIInv
<1>2. IInv /\ [Next]_vars => IInv'
  BY NextIInv
<1> QED
  BY <1>1, <1>2, PTL DEF Spec

\* Type correctness.
THEOREM TypeCorrect == Spec => []TypeOK
<1>1. IInv => TypeOK
  BY DEF IInv
<1> QED
  BY <1>1, Invariance, PTL

\* A successful select() reports only descriptors that were asked for and were
\* ready some time of the call.
THEOREM Reported == Spec => []ReportedWereReady
<1>1. IInv => ReportedWereReady
  BY DEF IInv, ReadyInv, ReportedWereReady
<1> QED
  BY <1>1, Invariance, PTL

\* It reports each descriptor that was ready all through the call.
THEOREM Held == Spec => []HeldReported
<1>1. IInv => HeldReported
  BY DEF IInv, HeldInv, HeldReported, Returned
<1> QED
  BY <1>1, Invariance, PTL

\* Nothing is left open between two calls, on any way out.
THEOREM Released == Spec => []ResourcesReleased
<1>1. IInv => ResourcesReleased
  BY DEF IInv, OpenInv, ResourcesReleased
<1> QED
  BY <1>1, Invariance, PTL

\* The thread that writes to the socket sets has ended when a result is
\* reported.
THEOREM Stable == Spec => []ResultsStable
<1>1. IInv => ResultsStable
  BY DEF IInv, ThreadInv, ResultsStable
<1> QED
  BY <1>1, Invariance, PTL
=============================================================================
