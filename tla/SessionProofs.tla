--------------------------- MODULE SessionProofs ---------------------------
(***************************************************************************)
(* Safety of the session for every set of callers and every number of      *)
(* calls.  None of the invariants is inductive on its own; Inv adds what   *)
(* ties them together: the newest attempt is number gen + 1 while a login  *)
(* is in flight and number gen otherwise, an attempt that was published    *)
(* succeeded with its own number as token, and a caller only ever asks     *)
(* with a generation that already exists.                                  *)
(*                                                                         *)
(* Named, beside Inv, follows the token of a generation from the login to  *)
(* whoever posts with it.  Every step of the session is then a step of     *)
(* SingleFlight or leaves it as it is.                                     *)
(***************************************************************************)
EXTENDS Session, SequenceTheorems, TLAPS

(* The heap of attempts and the generation count the same logins.          *)
Counted == /\ pending = Nil => gen = Len(attempts)
           /\ pending # Nil => /\ pending = Len(attempts)
                               /\ gen = Len(attempts) - 1
                               /\ \E c \in Callers : LoggingIn(c)

(* What a caller at each location knows of its attempt.                    *)
Leading(c) == /\ LoggingIn(c) => pending # Nil /\ mine[c] = pending
              /\ pc[c] = "publish" => /\ mine[c] \in 1..gen
                                      /\ heldGen[c] = mine[c]
                                      /\ err[c] = "ok" => /\ held[c] = mine[c]
                                                          /\ token # NoToken

Waiting(c) == pc[c] = "wait" => mine[c] \in 1..Len(attempts)

(* A generation that a caller asks past, or posts with, exists, and by     *)
(* then there is a token.                                                  *)
Known(c) ==
    /\ stale[c] # NoGen => stale[c] <= gen /\ token # NoToken
    /\ pc[c] = "post" => heldGen[c] \in 1..gen /\ token # NoToken
    /\ pc[c] \in {"wait", "login", "commit", "publish"} => stale[c] < mine[c]

Published(i) == attempts[i].done => /\ i <= gen
                                    /\ attempts[i].gen = i
                                    /\ attempts[i].err = "ok" => /\ attempts[i].token = i
                                                                 /\ token # NoToken

(* A login made without a token was made before any login had succeeded,   *)
(* whether or not its leader had published that by then.                   *)
Unpublished ==
    \A i \in 1..Len(attempts) : attempts[i].stale = NoGen =>
        \A c \in Callers : pc[c] = "publish" /\ mine[c] < i => err[c] # "ok"

Inv == /\ TypeOK
       /\ Counted
       /\ \A c \in Callers : Leading(c) /\ Waiting(c) /\ Known(c)
       /\ \A i \in 1..Len(attempts) : Published(i)
       /\ Unpublished
       /\ AtMostOneLogin
       /\ NoOrphanWaiter
       /\ LoginsAreJustified
       /\ RefreshAdvances

USE DEF NoGen, NoToken, Nil, NoneInFlight, Recovered, NewGen, ClearPending, LoginGen

-----------------------------------------------------------------------------
(* No attempt, no token, nobody waiting.                                   *)
LEMMA InitInv == Init => Inv
BY MaxDosAssumption
   DEF Init, Inv, TypeOK, Counted, Leading, Waiting, Known, Published, Unpublished,
       AtMostOneLogin, NoOrphanWaiter, LoginsAreJustified, RefreshAdvances, LoggingIn,
       Locations, Errors, Attempt

(* What Publish writes into an attempt.                                     *)
LEMMA AttemptUpdate ==
  ASSUME NEW p \in Attempt, NEW t \in Nat, NEW g \in Nat, NEW e \in Errors \cup {"ok"}
  PROVE  [p EXCEPT !.done = TRUE, !.token = t, !.gen = g, !.err = e] \in Attempt
BY DEF Attempt

(* The heap after the two actions that write it.                           *)
LEMMA LeadHeap ==
  ASSUME TypeOK, NEW c \in Callers, Lead(c)
  PROVE  /\ attempts' \in Seq(Attempt)
         /\ Len(attempts') = Len(attempts) + 1
         /\ \A i \in 1..Len(attempts) : attempts'[i] = attempts[i]
         /\ attempts'[Len(attempts) + 1].stale = stale[c]
         /\ attempts'[Len(attempts) + 1].done = FALSE
BY DEF TypeOK, Lead, Attempt, Errors

(* Publishing writes one attempt of the heap.                              *)
LEMMA PublishHeap ==
  ASSUME TypeOK, Counted, NEW c \in Callers, Leading(c), Publish(c)
  PROVE  /\ mine[c] \in 1..Len(attempts)
         /\ attempts' \in Seq(Attempt)
         /\ Len(attempts') = Len(attempts)
         /\ \A i \in 1..Len(attempts) : i # mine[c] => attempts'[i] = attempts[i]
         /\ attempts'[mine[c]].done
         /\ attempts'[mine[c]].token = held[c]
         /\ attempts'[mine[c]].gen = heldGen[c]
         /\ attempts'[mine[c]].err = err[c]
         /\ attempts'[mine[c]].stale = attempts[mine[c]].stale
<1> DEFINE p == attempts[mine[c]]
           q == [p EXCEPT !.done = TRUE, !.token = held[c], !.gen = heldGen[c], !.err = err[c]]
<1>1. /\ mine[c] \in 1..Len(attempts)
      /\ heldGen[c] \in Nat /\ held[c] \in Nat /\ err[c] \in Errors \cup {"ok"}
      /\ attempts \in Seq(Attempt)
  BY DEF TypeOK, Counted, Leading, Publish
<1>2. p \in Attempt
  BY <1>1, ElementOfSeq
<1>3. q \in Attempt
  BY <1>1, <1>2, AttemptUpdate
<1>4. attempts' = [attempts EXCEPT ![mine[c]] = q]
  BY DEF Publish
<1>5. /\ q.done /\ q.token = held[c] /\ q.gen = heldGen[c] /\ q.err = err[c]
      /\ q.stale = p.stale
  BY <1>2 DEF Attempt
<1> HIDE DEF p, q
<1>6. /\ attempts' \in Seq(Attempt)
      /\ Len(attempts') = Len(attempts)
      /\ \A i \in 1..Len(attempts) : attempts'[i] = IF i = mine[c] THEN q ELSE attempts[i]
  BY <1>1, <1>3, <1>4, ExceptSeq
<1> QED
  BY <1>1, <1>5, <1>6 DEF p

(* Every step keeps the types; the actions differ only in what they write. *)
LEMMA TypeStep == Inv /\ [Next]_vars => TypeOK'
<1> SUFFICES ASSUME Inv, [Next]_vars
             PROVE  TypeOK'
  OBVIOUS
<1> USE MaxDosAssumption DEF Locations, Errors
<1>0. TypeOK /\ Counted /\ \A c \in Callers : Leading(c) /\ Waiting(c)
  BY DEF Inv
<1>1. ASSUME NEW c \in Callers, Do(c) PROVE TypeOK'
  BY <1>0, <1>1 DEF TypeOK, Do, session
<1>2. ASSUME NEW c \in Callers, UseCached(c) PROVE TypeOK'
  BY <1>0, <1>2 DEF TypeOK, UseCached, session
<1>3. ASSUME NEW c \in Callers, Join(c) PROVE TypeOK'
  BY <1>0, <1>3 DEF TypeOK, Join, session
<1>4. ASSUME NEW c \in Callers, Lead(c) PROVE TypeOK'
  <2>1. attempts' \in Seq(Attempt)
    BY <1>0, <1>4, LeadHeap
  <2> QED
    BY <1>0, <1>4, <2>1 DEF TypeOK, Lead
<1>5. ASSUME NEW c \in Callers, LoginReturns(c) PROVE TypeOK'
  BY <1>0, <1>5 DEF TypeOK, LoginReturns, session
<1>6. ASSUME NEW c \in Callers, Commit(c) PROVE TypeOK'
  BY <1>0, <1>6 DEF TypeOK, Commit
<1>7. ASSUME NEW c \in Callers, Publish(c) PROVE TypeOK'
  <2>1. attempts' \in Seq(Attempt)
    BY <1>0, <1>7, PublishHeap
  <2> QED
    BY <1>0, <1>7, <2>1 DEF TypeOK, Publish, AfterObtain
<1>8. ASSUME NEW c \in Callers, Share(c) PROVE TypeOK'
  <2>1. attempts[mine[c]] \in Attempt
    BY <1>0, <1>8 DEF TypeOK, Waiting, Share
  <2> QED
    BY <1>0, <1>8, <2>1 DEF TypeOK, Share, AfterObtain, session, Attempt
<1>9. ASSUME NEW c \in Callers, Refresh(c) PROVE TypeOK'
  BY <1>0, <1>9 DEF TypeOK, Refresh, session
<1>10. ASSUME NEW c \in Callers, RejectAfterRefresh(c) PROVE TypeOK'
  BY <1>0, <1>10 DEF TypeOK, RejectAfterRefresh, session
<1>11. ASSUME NEW c \in Callers, PostReturns(c) PROVE TypeOK'
  BY <1>0, <1>11 DEF TypeOK, PostReturns, session
<1>12. CASE UNCHANGED vars
  BY <1>0, <1>12 DEF TypeOK, vars
<1> QED
  BY <1>1, <1>2, <1>3, <1>4, <1>5, <1>6, <1>7, <1>8, <1>9, <1>10, <1>11, <1>12
     DEF Next, Step, Finished

(* The heap and the generation advance together: Lead allocates attempt    *)
(* gen + 1, and only its leader's Commit makes that the generation.        *)
LEMMA CountedStep == Inv /\ [Next]_vars => Counted'
<1> SUFFICES ASSUME Inv, [Next]_vars
             PROVE  Counted'
  OBVIOUS
<1>0. TypeOK /\ Counted /\ AtMostOneLogin /\ \A c \in Callers : Leading(c)
  BY DEF Inv
<1>1. ASSUME NEW c \in Callers, Lead(c) PROVE Counted'
  BY <1>0, <1>1 DEF TypeOK, Counted, Lead, LoggingIn
<1>2. ASSUME NEW c \in Callers, LoginReturns(c) PROVE Counted'
  <2>1. pending # Nil => LoggingIn(c)'
    BY <1>0, <1>2 DEF TypeOK, LoginReturns, LoggingIn
  <2> QED
    BY <1>0, <1>2, <2>1 DEF TypeOK, Counted, LoginReturns, session
<1>3. ASSUME NEW c \in Callers, Commit(c) PROVE Counted'
  BY <1>0, <1>3 DEF TypeOK, Counted, Leading, LoggingIn, Commit
<1>4. ASSUME NEW c \in Callers,
             \/ Do(c) \/ UseCached(c) \/ Join(c) \/ Publish(c) \/ Share(c)
             \/ Refresh(c) \/ RejectAfterRefresh(c) \/ PostReturns(c)
      PROVE  Counted'
  <2>1. /\ pending' = pending /\ gen' = gen /\ Len(attempts') = Len(attempts)
    BY <1>0, <1>4
       DEF TypeOK, Do, UseCached, Join, Publish, Share, Refresh, RejectAfterRefresh,
           PostReturns, session
  <2>2. \A d \in Callers : LoggingIn(d) => LoggingIn(d)'
    BY <1>0, <1>4
       DEF TypeOK, LoggingIn, Do, UseCached, Join, Publish, Share, Refresh,
           RejectAfterRefresh, PostReturns, AfterObtain
  <2> QED
    BY <1>0, <2>1, <2>2 DEF Counted
<1>5. CASE UNCHANGED vars
  BY <1>0, <1>5 DEF Counted, LoggingIn, vars
<1> QED
  BY <1>1, <1>2, <1>3, <1>4, <1>5 DEF Next, Step, Finished

(* One login at a time: a caller leads only when pending is nil, and then  *)
(* nobody is logging in, for who logs in holds pending.                    *)
LEMMA AtMostOneLoginStep == Inv /\ [Next]_vars => AtMostOneLogin'
<1> SUFFICES ASSUME Inv, [Next]_vars
             PROVE  AtMostOneLogin'
  OBVIOUS
<1>0. TypeOK /\ AtMostOneLogin /\ \A c \in Callers : Leading(c)
  BY DEF Inv
<1>1. ASSUME NEW c \in Callers, Lead(c) PROVE AtMostOneLogin'
  <2>1. \A d \in Callers : ~LoggingIn(d)
    BY <1>0, <1>1 DEF Leading, Lead
  <2>2. \A d \in Callers : LoggingIn(d)' => d = c
    BY <1>0, <1>1, <2>1 DEF TypeOK, Lead, LoggingIn
  <2> QED
    BY <2>2 DEF AtMostOneLogin
<1>2. ASSUME NEW c \in Callers,
             \/ Do(c) \/ UseCached(c) \/ Join(c) \/ LoginReturns(c) \/ Commit(c) \/ Publish(c)
             \/ Share(c) \/ Refresh(c) \/ RejectAfterRefresh(c) \/ PostReturns(c)
      PROVE  AtMostOneLogin'
  <2>1. \A d \in Callers : LoggingIn(d)' => LoggingIn(d)
    BY <1>0, <1>2
       DEF TypeOK, LoggingIn, Do, UseCached, Join, LoginReturns, Commit, Publish, Share,
           Refresh, RejectAfterRefresh, PostReturns, AfterObtain
  <2> QED
    BY <1>0, <2>1 DEF AtMostOneLogin
<1>3. CASE UNCHANGED vars
  BY <1>0, <1>3 DEF AtMostOneLogin, LoggingIn, vars
<1> QED
  BY <1>1, <1>2, <1>3 DEF Next, Step, Finished

(* What a leader knows of its attempt stays true.                          *)
LEMMA LeadingStep == Inv /\ [Next]_vars => \A d \in Callers : Leading(d)'
<1> SUFFICES ASSUME Inv, [Next]_vars, NEW d \in Callers
             PROVE  Leading(d)'
  OBVIOUS
<1>0. TypeOK /\ Counted /\ AtMostOneLogin /\ Leading(d)
  BY DEF Inv
<1>1. ASSUME NEW c \in Callers, Lead(c) PROVE Leading(d)'
  BY <1>0, <1>1 DEF TypeOK, Counted, Leading, Lead, LoggingIn
<1>2. ASSUME NEW c \in Callers, LoginReturns(c) PROVE Leading(d)'
  BY <1>0, <1>2 DEF TypeOK, Leading, LoginReturns, LoggingIn, session
<1>3. ASSUME NEW c \in Callers, Commit(c) PROVE Leading(d)'
  <2>1. Leading(c)
    BY DEF Inv
  <2>2. pending = gen + 1 /\ mine[c] = pending
    BY <1>0, <1>3, <2>1 DEF TypeOK, Counted, Leading, Commit, LoggingIn
  <2>3. CASE d = c
    BY <1>0, <1>3, <2>2, <2>3 DEF TypeOK, Leading, Commit, LoggingIn
  <2>4. CASE d # c
    <3>1. ~LoggingIn(d)
      BY <1>0, <1>3, <2>4 DEF AtMostOneLogin, LoggingIn, Commit
    <3> QED
      BY <1>0, <1>3, <2>4, <3>1 DEF TypeOK, Leading, Commit, LoggingIn
  <2> QED
    BY <2>3, <2>4
<1>4. ASSUME NEW c \in Callers,
             \/ Do(c) \/ UseCached(c) \/ Join(c) \/ Publish(c) \/ Share(c)
             \/ Refresh(c) \/ RejectAfterRefresh(c) \/ PostReturns(c)
      PROVE  Leading(d)'
  <2>1. pending' = pending /\ gen' = gen /\ token' = token
    BY <1>4 DEF Do, UseCached, Join, Publish, Share, Refresh, RejectAfterRefresh,
                PostReturns, session
  <2>2. \/ pc'[d] \notin {"login", "commit", "publish"}
        \/ UNCHANGED <<pc[d], mine[d], held[d], heldGen[d], err[d]>>
    BY <1>0, <1>4
       DEF TypeOK, Do, UseCached, Join, Publish, Share, Refresh, RejectAfterRefresh,
           PostReturns, AfterObtain
  <2> QED
    BY <1>0, <2>1, <2>2 DEF Leading, LoggingIn
<1>5. CASE UNCHANGED vars
  BY <1>0, <1>5 DEF Leading, LoggingIn, vars
<1> QED
  BY <1>1, <1>2, <1>3, <1>4, <1>5 DEF Next, Step, Finished

(* What a waiter knows of its attempt stays true.                          *)
LEMMA WaitingStep == Inv /\ [Next]_vars => \A d \in Callers : Waiting(d)'
<1> SUFFICES ASSUME Inv, [Next]_vars, NEW d \in Callers
             PROVE  Waiting(d)'
  OBVIOUS
<1>0. TypeOK /\ Counted /\ Waiting(d) /\ \A c \in Callers : Leading(c)
  BY DEF Inv
<1>1. ASSUME NEW c \in Callers, Lead(c) PROVE Waiting(d)'
  BY <1>0, <1>1, LeadHeap DEF TypeOK, Waiting, Lead
<1>2. ASSUME NEW c \in Callers, Join(c) PROVE Waiting(d)'
  BY <1>0, <1>2 DEF TypeOK, Counted, Waiting, Join, session
<1>3. ASSUME NEW c \in Callers, Publish(c) PROVE Waiting(d)'
  BY <1>0, <1>3, PublishHeap DEF TypeOK, Waiting, Publish, AfterObtain
<1>4. ASSUME NEW c \in Callers,
             \/ Do(c) \/ UseCached(c) \/ LoginReturns(c) \/ Commit(c) \/ Share(c)
             \/ Refresh(c) \/ RejectAfterRefresh(c) \/ PostReturns(c)
      PROVE  Waiting(d)'
  BY <1>0, <1>4
     DEF TypeOK, Waiting, Do, UseCached, LoginReturns, Commit, Share, Refresh,
         RejectAfterRefresh, PostReturns, AfterObtain, session
<1>5. CASE UNCHANGED vars
  BY <1>0, <1>5 DEF Waiting, vars
<1> QED
  BY <1>1, <1>2, <1>3, <1>4, <1>5 DEF Next, Step, Finished

(* A published attempt goes on to carry its own number.                    *)
LEMMA PublishedStep == Inv /\ [Next]_vars => (\A i \in 1..Len(attempts) : Published(i))'
<1> SUFFICES ASSUME Inv, [Next]_vars, NEW i \in 1..Len(attempts')
             PROVE  Published(i)'
  BY DEF Published
<1>0. /\ TypeOK /\ Counted /\ \A c \in Callers : Leading(c)
      /\ \A j \in 1..Len(attempts) : Published(j)
  BY DEF Inv
<1>1. ASSUME NEW c \in Callers, Lead(c) PROVE Published(i)'
  <2>1. CASE i = Len(attempts) + 1
    BY <1>0, <1>1, <2>1, LeadHeap DEF Published
  <2>2. CASE i # Len(attempts) + 1
    BY <1>0, <1>1, <2>2, LeadHeap DEF TypeOK, Published, Lead
  <2> QED
    BY <2>1, <2>2
<1>2. ASSUME NEW c \in Callers, Commit(c) PROVE Published(i)'
  BY <1>0, <1>2 DEF TypeOK, Published, Commit
<1>3. ASSUME NEW c \in Callers, Publish(c) PROVE Published(i)'
  <2>1. /\ Len(attempts') = Len(attempts)
        /\ \A j \in 1..Len(attempts) : j # mine[c] => attempts'[j] = attempts[j]
        /\ attempts'[mine[c]].token = held[c]
        /\ attempts'[mine[c]].gen = heldGen[c]
        /\ attempts'[mine[c]].err = err[c]
    BY <1>0, <1>3, PublishHeap
  <2>2. gen' = gen /\ token' = token
    BY <1>3 DEF Publish
  <2>3. CASE i = mine[c]
    <3>1. /\ mine[c] <= gen /\ heldGen[c] = mine[c]
          /\ err[c] = "ok" => held[c] = mine[c] /\ token # NoToken
      BY <1>0, <1>3 DEF TypeOK, Leading, Publish
    <3> QED
      BY <2>1, <2>2, <2>3, <3>1 DEF Published
  <2>4. CASE i # mine[c]
    BY <1>0, <2>1, <2>2, <2>4 DEF Published
  <2> QED
    BY <2>3, <2>4
<1>4. ASSUME NEW c \in Callers,
             \/ Do(c) \/ UseCached(c) \/ Join(c) \/ LoginReturns(c) \/ Share(c)
             \/ Refresh(c) \/ RejectAfterRefresh(c) \/ PostReturns(c)
      PROVE  Published(i)'
  <2>1. UNCHANGED session
    BY <1>4 DEF Do, UseCached, Join, LoginReturns, Share, Refresh, RejectAfterRefresh,
                PostReturns, session
  <2> QED
    BY <1>0, <2>1 DEF Published, session
<1>5. CASE UNCHANGED vars
  BY <1>0, <1>5 DEF Published, vars
<1> QED
  BY <1>1, <1>2, <1>3, <1>4, <1>5 DEF Next, Step, Finished

(* A caller asks with a generation that exists already.                    *)
LEMMA KnownStep == Inv /\ [Next]_vars => \A d \in Callers : Known(d)'
<1> SUFFICES ASSUME Inv, [Next]_vars, NEW d \in Callers
             PROVE  Known(d)'
  OBVIOUS
<1>0. /\ TypeOK /\ Counted /\ Known(d) /\ Waiting(d)
      /\ \A c \in Callers : Leading(c)
      /\ \A j \in 1..Len(attempts) : Published(j)
  BY DEF Inv
<1>1. ASSUME NEW c \in Callers, Do(c) PROVE Known(d)'
  BY <1>0, <1>1 DEF TypeOK, Known, Do, session
<1>2. ASSUME NEW c \in Callers, UseCached(c) PROVE Known(d)'
  <2>1. HasNewer(c) => gen > 0
    BY <1>0 DEF TypeOK, HasNewer
  <2> QED
    BY <1>0, <1>2, <2>1 DEF TypeOK, Known, UseCached, HasNewer, session
<1>3. ASSUME NEW c \in Callers, Join(c) PROVE Known(d)'
  BY <1>0, <1>3 DEF TypeOK, Counted, Known, Join, session
<1>4. ASSUME NEW c \in Callers, Lead(c) PROVE Known(d)'
  BY <1>0, <1>4 DEF TypeOK, Counted, Known, Lead
<1>5. ASSUME NEW c \in Callers, LoginReturns(c) PROVE Known(d)'
  BY <1>0, <1>5 DEF TypeOK, Known, LoginReturns, session
<1>6. ASSUME NEW c \in Callers, Commit(c) PROVE Known(d)'
  BY <1>0, <1>6 DEF TypeOK, Known, Commit
<1>7. ASSUME NEW c \in Callers, Publish(c) PROVE Known(d)'
  BY <1>0, <1>7 DEF TypeOK, Known, Leading, Publish, AfterObtain
<1>8. ASSUME NEW c \in Callers, Share(c) PROVE Known(d)'
  <2>1. mine[c] \in 1..Len(attempts) /\ Published(mine[c])
    BY <1>0, <1>8 DEF Waiting, Share, Inv
  <2>2. CASE c = d
    <3>1. /\ heldGen'[d] = mine[d] /\ mine[d] <= gen
          /\ pc'[d] = "post" => token # NoToken
          /\ pc'[d] \in {"post", "idle"}
      BY <1>0, <1>8, <2>1, <2>2 DEF TypeOK, Published, Share, AfterObtain
    <3>2. UNCHANGED <<stale, gen, token>>
      BY <1>8 DEF Share, session
    <3> QED
      BY <1>0, <2>1, <2>2, <3>1, <3>2 DEF TypeOK, Known
  <2>3. CASE c # d
    BY <1>0, <1>8, <2>3 DEF TypeOK, Known, Share, session
  <2> QED
    BY <2>2, <2>3
<1>9. ASSUME NEW c \in Callers, Refresh(c) PROVE Known(d)'
  BY <1>0, <1>9 DEF TypeOK, Known, Refresh, session
<1>10. ASSUME NEW c \in Callers, RejectAfterRefresh(c) PROVE Known(d)'
  BY <1>0, <1>10 DEF TypeOK, Known, RejectAfterRefresh, session
<1>11. ASSUME NEW c \in Callers, PostReturns(c) PROVE Known(d)'
  BY <1>0, <1>11 DEF TypeOK, Known, PostReturns, session
<1>12. CASE UNCHANGED vars
  BY <1>0, <1>12 DEF Known, vars
<1> QED
  BY <1>1, <1>2, <1>3, <1>4, <1>5, <1>6, <1>7, <1>8, <1>9, <1>10, <1>11, <1>12
     DEF Next, Step, Finished

(* The generation a refreshed caller goes on with is the one after its     *)
(* staleGen or a later one, in each of the three cases.                    *)
LEMMA RefreshAdvancesStep == Inv /\ [Next]_vars => RefreshAdvances'
<1> SUFFICES ASSUME Inv, [Next]_vars, NEW d \in Callers, pc'[d] = "post", stale'[d] # NoGen
             PROVE  heldGen'[d] > stale'[d]
  BY DEF RefreshAdvances
<1>0. /\ TypeOK /\ Counted /\ Known(d) /\ Waiting(d) /\ Leading(d) /\ RefreshAdvances
      /\ \A j \in 1..Len(attempts) : Published(j)
  BY DEF Inv
<1>1. CASE UseCached(d)
  BY <1>0, <1>1 DEF TypeOK, Known, HasNewer, UseCached
<1>2. CASE Publish(d)
  BY <1>0, <1>2 DEF TypeOK, Known, Leading, Publish
<1>3. CASE Share(d)
  <2>1. mine[d] \in 1..Len(attempts) /\ Published(mine[d])
    BY <1>0, <1>3 DEF Waiting, Share
  <2> QED
    BY <1>0, <1>3, <2>1 DEF TypeOK, Known, Published, Share
<1>4. CASE UNCHANGED <<pc[d], stale[d], heldGen[d]>>
  BY <1>0, <1>4 DEF RefreshAdvances
<1>5. \A c \in Callers : Do(c) \/ Step(c) =>
        c = d \/ UNCHANGED <<pc[d], stale[d], heldGen[d]>>
  BY <1>0 DEF TypeOK, Step, Do, UseCached, Join, Lead, LoginReturns, Commit, Publish, Share,
              Refresh, RejectAfterRefresh, PostReturns
<1>6. ~(Do(d) \/ Join(d) \/ Lead(d) \/ LoginReturns(d) \/ Commit(d) \/ Refresh(d)
          \/ RejectAfterRefresh(d) \/ PostReturns(d))
  BY <1>0 DEF TypeOK, Do, Join, Lead, LoginReturns, Commit, Refresh, RejectAfterRefresh,
              PostReturns
<1>7. UNCHANGED vars => UNCHANGED <<pc[d], stale[d], heldGen[d]>>
  BY DEF vars
<1> QED
  BY <1>1, <1>2, <1>3, <1>4, <1>5, <1>6, <1>7 DEF Next, Step, Finished

(* No step leaves a waiter behind.                                         *)
LEMMA NoOrphanWaiterStep == Inv /\ [Next]_vars => NoOrphanWaiter'
<1> SUFFICES ASSUME Inv, [Next]_vars, NEW w \in Callers, pc'[w] = "wait"
             PROVE  \/ attempts'[mine'[w]].done
                    \/ \E d \in Callers : /\ pc'[d] \in {"login", "commit", "publish"}
                                          /\ mine'[d] = mine'[w]
  BY DEF NoOrphanWaiter
<1>0. /\ TypeOK /\ Counted /\ NoOrphanWaiter
      /\ \A c \in Callers : Leading(c) /\ Waiting(c)
  BY DEF Inv
<1> DEFINE Served == \/ attempts'[mine'[w]].done
                     \/ \E d \in Callers : /\ pc'[d] \in {"login", "commit", "publish"}
                                           /\ mine'[d] = mine'[w]
<1>1. CASE Join(w)
  (* Whoever holds pending is still logging in.                            *)
  <2>1. PICK d \in Callers : LoggingIn(d)
    BY <1>0, <1>1 DEF Counted, Join
  <2>2. d # w /\ mine[d] = pending
    BY <1>0, <1>1, <2>1 DEF Leading, LoggingIn, Join
  <2>3. pc'[d] = pc[d] /\ mine'[d] = mine[d] /\ mine'[w] = pending
    BY <1>0, <1>1, <2>2 DEF TypeOK, Join
  <2> QED
    BY <2>1, <2>2, <2>3 DEF LoggingIn
<1>2. CASE ~Join(w)
  <2>1. pc[w] = "wait" /\ mine'[w] = mine[w] /\ mine[w] \in 1..Len(attempts)
    <3>1. \A c \in Callers : Do(c) \/ Step(c) => pc[w] = "wait" /\ mine'[w] = mine[w]
      BY <1>0, <1>2
         DEF TypeOK, Step, Do, UseCached, Join, Lead, LoginReturns, Commit, Publish, Share,
             Refresh, RejectAfterRefresh, PostReturns, AfterObtain
    <3>2. UNCHANGED vars => pc[w] = "wait" /\ mine'[w] = mine[w]
      BY DEF vars
    <3> QED
      BY <1>0, <3>1, <3>2 DEF Next, Finished, Waiting
  <2>2. CASE attempts[mine[w]].done
    <3>1. ASSUME NEW c \in Callers, Lead(c) PROVE Served
      BY <1>0, <2>1, <2>2, <3>1, LeadHeap
    <3>2. ASSUME NEW c \in Callers, Publish(c) PROVE Served
      <4>1. attempts'[mine[c]].done /\ (mine[w] # mine[c] => attempts'[mine[w]] = attempts[mine[w]])
        BY <1>0, <2>1, <3>2, PublishHeap
      <4> QED
        BY <2>1, <2>2, <4>1
    <3>3. ASSUME NEW c \in Callers,
                 \/ Do(c) \/ UseCached(c) \/ Join(c) \/ LoginReturns(c) \/ Commit(c) \/ Share(c)
                 \/ Refresh(c) \/ RejectAfterRefresh(c) \/ PostReturns(c)
          PROVE  Served
      <4>1. attempts' = attempts
        BY <3>3 DEF Do, UseCached, Join, LoginReturns, Commit, Share, Refresh,
                    RejectAfterRefresh, PostReturns, session
      <4> QED
        BY <2>1, <2>2, <4>1
    <3>4. CASE UNCHANGED vars
      BY <2>1, <2>2, <3>4 DEF vars
    <3> QED
      BY <3>1, <3>2, <3>3, <3>4 DEF Next, Step, Finished
  <2>3. CASE \E d \in Callers : /\ pc[d] \in {"login", "commit", "publish"}
                                /\ mine[d] = mine[w]
    <3>0. PICK d \in Callers : pc[d] \in {"login", "commit", "publish"} /\ mine[d] = mine[w]
      BY <2>3
    <3>1. CASE Publish(d)
      BY <1>0, <2>1, <3>0, <3>1, PublishHeap
    <3>2. CASE ~Publish(d)
      <4>1. ASSUME NEW c \in Callers, Do(c) \/ Step(c)
            PROVE  pc'[d] \in {"login", "commit", "publish"} /\ mine'[d] = mine[d]
        <5>1. CASE c # d
          <6>1. pc'[d] = pc[d] /\ mine'[d] = mine[d]
            BY <1>0, <4>1, <5>1
               DEF TypeOK, Step, Do, UseCached, Join, Lead, LoginReturns, Commit, Publish, Share,
                   Refresh, RejectAfterRefresh, PostReturns
          <6> QED
            BY <3>0, <6>1
        <5>2. CASE c = d
          <6>1. LoginReturns(d) \/ Commit(d)
            BY <3>0, <3>2, <4>1, <5>2
               DEF Step, Do, UseCached, Join, Lead, Share, Refresh, RejectAfterRefresh, PostReturns
          <6> QED
            BY <1>0, <6>1 DEF TypeOK, LoginReturns, Commit
        <5> QED
          BY <5>1, <5>2
      <4>2. UNCHANGED vars => pc'[d] \in {"login", "commit", "publish"} /\ mine'[d] = mine[d]
        BY <3>0 DEF vars
      <4>3. pc'[d] \in {"login", "commit", "publish"} /\ mine'[d] = mine[d]
        BY <4>1, <4>2 DEF Next, Finished
      <4> QED
        BY <2>1, <3>0, <4>3
    <3> QED
      BY <3>1, <3>2
  <2> QED
    BY <1>0, <2>1, <2>2, <2>3 DEF NoOrphanWaiter
<1> QED
  BY <1>1, <1>2

(* A login without a token came before any success.                        *)
LEMMA UnpublishedStep == Inv /\ [Next]_vars => Unpublished'
<1> SUFFICES ASSUME Inv, [Next]_vars,
                    NEW i \in 1..Len(attempts'), attempts'[i].stale = NoGen,
                    NEW d \in Callers, pc'[d] = "publish", mine'[d] < i
             PROVE  err'[d] # "ok"
  BY DEF Unpublished
<1>0. /\ TypeOK /\ Counted /\ Unpublished
      /\ \A c \in Callers : Leading(c) /\ Known(c)
  BY DEF Inv
<1>len. Len(attempts) \in Nat
  BY <1>0 DEF TypeOK
<1>1. ASSUME NEW c \in Callers, Lead(c) PROVE err'[d] # "ok"
  <2>1. UNCHANGED <<pc[d], mine[d], err[d]>> /\ d # c
    BY <1>0, <1>1 DEF TypeOK, Lead
  <2>2. CASE i = Len(attempts) + 1
    (* A caller leads from NoGen only while there is no token at all.      *)
    <3>1. stale[c] = NoGen
      BY <1>0, <1>1, <2>2, LeadHeap
    <3>2. token = NoToken
      BY <1>0, <1>1, <3>1 DEF TypeOK, Lead, HasNewer
    <3> QED
      BY <1>0, <2>1, <3>2 DEF Leading
  <2>3. CASE i # Len(attempts) + 1
    <3>1. /\ Len(attempts') = Len(attempts) + 1
          /\ \A j \in 1..Len(attempts) : attempts'[j] = attempts[j]
      BY <1>0, <1>1, LeadHeap
    <3>2. i \in 1..Len(attempts) /\ attempts[i].stale = NoGen
      BY <1>len, <2>3, <3>1
    <3> QED
      BY <1>0, <2>1, <3>2 DEF Unpublished
  <2> QED
    BY <2>2, <2>3
<1>2. ASSUME NEW c \in Callers, Commit(c) PROVE err'[d] # "ok"
  <2>1. c = d => mine[d] = Len(attempts)
    BY <1>0, <1>2 DEF Leading, Commit, LoggingIn, Counted
  <2>2. UNCHANGED <<attempts, mine, err>>
    BY <1>2 DEF Commit
  <2>3. c # d
    BY <1>0, <2>1, <2>2 DEF TypeOK
  <2> QED
    BY <1>0, <1>2, <2>2, <2>3 DEF TypeOK, Commit, Unpublished
<1>3. ASSUME NEW c \in Callers, Publish(c) PROVE err'[d] # "ok"
  <2>1. /\ Len(attempts') = Len(attempts) /\ attempts'[i].stale = attempts[i].stale
    BY <1>0, <1>3, PublishHeap
  <2>2. UNCHANGED <<pc[d], mine[d], err[d]>>
    BY <1>0, <1>3 DEF TypeOK, Publish, AfterObtain
  <2> QED
    BY <1>0, <2>1, <2>2 DEF Unpublished
<1>4. ASSUME NEW c \in Callers,
             \/ Do(c) \/ UseCached(c) \/ Join(c) \/ LoginReturns(c) \/ Share(c)
             \/ Refresh(c) \/ RejectAfterRefresh(c) \/ PostReturns(c)
      PROVE  err'[d] # "ok"
  <2>1. attempts' = attempts
    BY <1>4 DEF Do, UseCached, Join, LoginReturns, Share, Refresh, RejectAfterRefresh,
                PostReturns, session
  <2>2. UNCHANGED <<pc[d], mine[d], err[d]>>
    BY <1>0, <1>4
       DEF TypeOK, Do, UseCached, Join, LoginReturns, Share, Refresh, RejectAfterRefresh,
           PostReturns, AfterObtain
  <2> QED
    BY <1>0, <2>1, <2>2 DEF Unpublished
<1>5. CASE UNCHANGED vars
  BY <1>0, <1>5 DEF Unpublished, vars
<1> QED
  BY <1>1, <1>2, <1>3, <1>4, <1>5 DEF Next, Step, Finished

(* No step starts a login without a reason.                                *)
LEMMA LoginsAreJustifiedStep == Inv /\ [Next]_vars => LoginsAreJustified'
<1> SUFFICES ASSUME Inv, [Next]_vars, NEW i \in 1..Len(attempts')
             PROVE  \/ attempts'[i].stale = i - 1
                    \/ /\ attempts'[i].stale = NoGen
                       /\ \A j \in 1..(i - 1) : attempts'[j].done => attempts'[j].err # "ok"
  BY DEF LoginsAreJustified
<1>0. /\ TypeOK /\ Counted /\ Unpublished /\ LoginsAreJustified
      /\ \A c \in Callers : Leading(c) /\ Known(c)
      /\ \A j \in 1..Len(attempts) : Published(j)
  BY DEF Inv
<1>len. Len(attempts) \in Nat
  BY <1>0 DEF TypeOK
<1> DEFINE Justified == \/ attempts'[i].stale = i - 1
                        \/ /\ attempts'[i].stale = NoGen
                           /\ \A j \in 1..(i - 1) :
                                attempts'[j].done => attempts'[j].err # "ok"
<1>1. ASSUME NEW c \in Callers, Lead(c) PROVE Justified
  <2>1. /\ Len(attempts') = Len(attempts) + 1
        /\ \A j \in 1..Len(attempts) : attempts'[j] = attempts[j]
        /\ attempts'[Len(attempts) + 1].stale = stale[c]
    BY <1>0, <1>1, LeadHeap
  <2>2. CASE i = Len(attempts) + 1
    <3>1. CASE stale[c] # NoGen
      (* It has a token to be stale about, so the newest generation is.    *)
      BY <1>0, <1>1, <2>1, <2>2, <3>1 DEF TypeOK, Known, Lead, HasNewer, Counted
    <3>2. CASE stale[c] = NoGen
      <4>1. token = NoToken
        BY <1>0, <1>1, <3>2 DEF TypeOK, Lead, HasNewer
      <4>2. \A j \in 1..Len(attempts) : attempts[j].done => attempts[j].err # "ok"
        BY <1>0, <4>1 DEF Published
      <4> QED
        BY <1>len, <2>1, <2>2, <3>2, <4>2
    <3> QED
      BY <3>1, <3>2
  <2>3. CASE i # Len(attempts) + 1
    <3>1. i \in 1..Len(attempts) /\ attempts'[i] = attempts[i]
      BY <1>len, <2>1, <2>3
    <3>2. \A j \in 1..(i - 1) : attempts'[j] = attempts[j]
      BY <1>len, <2>1, <3>1
    <3>3. \/ attempts[i].stale = i - 1
          \/ /\ attempts[i].stale = NoGen
             /\ \A j \in 1..(i - 1) : attempts[j].done => attempts[j].err # "ok"
      BY <1>0, <3>1 DEF LoginsAreJustified
    <3> QED
      BY <3>1, <3>2, <3>3
  <2> QED
    BY <2>2, <2>3
<1>2. ASSUME NEW c \in Callers, Publish(c) PROVE Justified
  <2>1. /\ Len(attempts') = Len(attempts) /\ attempts'[i].stale = attempts[i].stale
        /\ \A j \in 1..Len(attempts) : j # mine[c] => attempts'[j] = attempts[j]
        /\ attempts'[mine[c]].err = err[c]
    BY <1>0, <1>2, PublishHeap
  <2>2. CASE attempts[i].stale = i - 1
    BY <2>1, <2>2
  <2>3. CASE attempts[i].stale # i - 1
    <3>1. /\ attempts[i].stale = NoGen
          /\ \A j \in 1..(i - 1) : attempts[j].done => attempts[j].err # "ok"
      BY <1>0, <1>len, <2>1, <2>3 DEF LoginsAreJustified
    <3>2. mine[c] < i => err[c] # "ok"
      BY <1>0, <1>2, <2>1, <3>1 DEF Unpublished, Publish
    <3>3. \A j \in 1..(i - 1) : j \in 1..Len(attempts) /\ (j = mine[c] => mine[c] < i)
      BY <1>len, <2>1
    <3> QED
      BY <2>1, <3>1, <3>2, <3>3
  <2> QED
    BY <2>2, <2>3
<1>3. ASSUME NEW c \in Callers,
             \/ Do(c) \/ UseCached(c) \/ Join(c) \/ LoginReturns(c) \/ Commit(c) \/ Share(c)
             \/ Refresh(c) \/ RejectAfterRefresh(c) \/ PostReturns(c)
      PROVE  Justified
  <2>1. attempts' = attempts
    BY <1>3 DEF Do, UseCached, Join, LoginReturns, Commit, Share, Refresh,
                RejectAfterRefresh, PostReturns, session
  <2> QED
    BY <1>0, <2>1 DEF LoginsAreJustified
<1>4. CASE UNCHANGED vars
  BY <1>0, <1>4 DEF LoginsAreJustified, vars
<1> QED
  BY <1>1, <1>2, <1>3, <1>4 DEF Next, Step, Finished

-----------------------------------------------------------------------------
(* Inv is inductive.                                                       *)
LEMMA StepInv == Inv /\ [Next]_vars => Inv'
BY TypeStep, CountedStep, LeadingStep, WaitingStep, KnownStep, PublishedStep, UnpublishedStep,
   AtMostOneLoginStep, NoOrphanWaiterStep, LoginsAreJustifiedStep, RefreshAdvancesStep
   DEF Inv

(* The inductive invariant holds of every behaviour, for any number of     *)
(* callers and calls.                                                      *)
THEOREM Invariance == Spec => []Inv
<1>1. Init => Inv
  BY InitInv
<1>2. Inv /\ [Next]_vars => Inv'
  BY StepInv
<1> QED
  BY <1>1, <1>2, PTL DEF Spec

(* Variables keep their types; the token is always one that some login up  *)
(* to the current generation issued.                                       *)
THEOREM TypeCorrect == Spec => []TypeOK
BY Invariance, PTL DEF Inv

(* However many goroutines share a session, one login is in flight at most.*)
THEOREM SingleLogin == Spec => []AtMostOneLogin
BY Invariance, PTL DEF Inv

(* No goroutine is parked on an attempt that nobody is left to close.      *)
THEOREM WaitersAreServed == Spec => []NoOrphanWaiter
BY Invariance, PTL DEF Inv

(* Each generation's rejection costs at most one login, for any number of  *)
(* callers that saw it.                                                    *)
THEOREM LockoutSafety == Spec => []LoginsAreJustified
BY Invariance, PTL DEF Inv

(* A refreshed caller goes on with a later generation than its staleGen.   *)
THEOREM RefreshIsNewer == Spec => []RefreshAdvances
BY Invariance, PTL DEF Inv

-----------------------------------------------------------------------------
(* A generation whose login succeeded, published or about to be.           *)
Succeeded(i) == \/ /\ i \in 1..Len(attempts)
                   /\ attempts[i].done
                   /\ attempts[i].err = "ok"
                \/ \E c \in Callers : pc[c] = "publish" /\ mine[c] = i /\ err[c] = "ok"

(* What the token of a generation is, from whichever case a caller had it: *)
(* a generation whose login succeeded names its own token, and one whose   *)
(* login failed is only ever handed out from the cache, while it is gen.   *)
Named == /\ GenerationNamesOneToken
         /\ \A c \in Callers : pc[c] = "post" /\ heldGen[c] = gen => held[c] = token
         /\ \A i \in 1..gen : Succeeded(i) =>
              /\ gen = i => token = i
              /\ \A c \in Callers : pc[c] = "post" /\ heldGen[c] = i => held[c] = i

(* Nothing is named yet.                                                   *)
LEMMA InitNamed == Init => Named
BY DEF Init, Named, GenerationNamesOneToken

(* Only Commit makes a success, and only of the generation it makes.       *)
LEMMA SucceededStep ==
  ASSUME Inv, NEW c \in Callers, Do(c) \/ Step(c), NEW i \in 1..gen', Succeeded(i)'
  PROVE  \/ i \in 1..gen /\ Succeeded(i)
         \/ Commit(c) /\ i = gen + 1 /\ token' = i
<1>0. TypeOK /\ Counted /\ \A d \in Callers : Leading(d)
  BY DEF Inv
<1>1. CASE Lead(c)
  BY <1>0, <1>1, LeadHeap DEF TypeOK, Lead, Succeeded
<1>2. CASE Commit(c)
  <2>1. CASE \E d \in Callers : pc'[d] = "publish" /\ mine'[d] = i /\ err'[d] = "ok"
    <3>1. PICK d \in Callers : pc'[d] = "publish" /\ mine'[d] = i /\ err'[d] = "ok"
      BY <2>1
    <3>2. CASE d = c
      BY <1>0, <1>2, <3>1, <3>2 DEF TypeOK, Counted, Leading, LoggingIn, Commit
    <3>3. CASE d # c
      BY <1>0, <1>2, <3>1, <3>3 DEF TypeOK, Leading, Commit, Succeeded
    <3> QED
      BY <3>2, <3>3
  <2>2. CASE /\ i \in 1..Len(attempts')
             /\ attempts'[i].done
             /\ attempts'[i].err = "ok"
    <3>1. attempts' = attempts
      BY <1>2 DEF Commit
    <3>2. Published(i)
      BY <2>2, <3>1 DEF Inv
    <3> QED
      BY <1>0, <2>2, <3>1, <3>2 DEF TypeOK, Published, Succeeded
  <2> QED
    BY <2>1, <2>2 DEF Succeeded
<1>3. CASE Publish(c)
  <2>1. /\ Len(attempts') = Len(attempts)
        /\ \A j \in 1..Len(attempts) : j # mine[c] => attempts'[j] = attempts[j]
        /\ attempts'[mine[c]].err = err[c]
    BY <1>0, <1>3, PublishHeap
  <2>2. /\ UNCHANGED <<gen, mine, err>> /\ pc[c] = "publish"
        /\ \A d \in Callers : pc'[d] = "publish" => pc[d] = "publish"
    BY <1>0, <1>3 DEF TypeOK, Publish, AfterObtain
  <2> QED
    BY <2>1, <2>2 DEF Succeeded
<1>4. CASE \/ Do(c) \/ UseCached(c) \/ Join(c) \/ LoginReturns(c) \/ Share(c)
           \/ Refresh(c) \/ RejectAfterRefresh(c) \/ PostReturns(c)
  <2>1. gen' = gen /\ attempts' = attempts
    BY <1>4 DEF Do, UseCached, Join, LoginReturns, Share, Refresh, RejectAfterRefresh,
                PostReturns, session
  <2>2. \A d \in Callers : pc'[d] = "publish" => UNCHANGED <<pc[d], mine[d], err[d]>>
    BY <1>0, <1>4
       DEF TypeOK, Do, UseCached, Join, LoginReturns, Share, Refresh, RejectAfterRefresh,
           PostReturns, AfterObtain
  <2> QED
    BY <2>1, <2>2 DEF Succeeded
<1> QED
  BY <1>1, <1>2, <1>3, <1>4 DEF Step

(* Named is inductive beside Inv.                                          *)
LEMMA NamedStep == Inv /\ Named /\ [Next]_vars => Named'
<1> SUFFICES ASSUME Inv, Named, [Next]_vars
             PROVE  Named'
  OBVIOUS
<1>0. /\ TypeOK /\ Counted /\ \A c \in Callers : Leading(c) /\ Waiting(c) /\ Known(c)
  BY DEF Inv
<1>1. ASSUME NEW c \in Callers, UseCached(c) PROVE Named'
  <2>1. UNCHANGED <<gen, token>> /\ held'[c] = token /\ heldGen'[c] = gen
    BY <1>0, <1>1 DEF TypeOK, UseCached, session
  <2>2. \A d \in Callers \ {c} : UNCHANGED <<pc[d], held[d], heldGen[d]>>
    BY <1>0, <1>1 DEF TypeOK, UseCached
  <2>3. \A i \in 1..gen' : Succeeded(i)' => i \in 1..gen /\ Succeeded(i)
    BY <1>1, SucceededStep DEF Step, UseCached, Commit
  <2> QED
    BY <2>1, <2>2, <2>3 DEF Named, GenerationNamesOneToken
<1>2. ASSUME NEW c \in Callers, Commit(c) PROVE Named'
  <2>1. gen \in Nat /\ gen' = gen + 1
    BY <1>0, <1>2 DEF TypeOK, Commit
  <2>2. \A d \in Callers : pc'[d] = "post" =>
          /\ UNCHANGED <<pc[d], held[d], heldGen[d]>>
          /\ heldGen[d] \in 1..gen
    BY <1>0, <1>2 DEF TypeOK, Known, Commit
  <2>3. \A i \in 1..gen' : Succeeded(i)' =>
          (i \in 1..gen /\ Succeeded(i)) \/ (i = gen + 1 /\ token' = i)
    BY <1>2, SucceededStep DEF Step
  <2> QED
    <3>1. GenerationNamesOneToken'
      BY <2>2 DEF Named, GenerationNamesOneToken
    <3>2. \A d \in Callers : pc'[d] = "post" => heldGen'[d] \in 1..gen
      BY <2>2
    <3>3. ASSUME NEW i \in 1..gen', Succeeded(i)'
          PROVE  /\ gen' = i => token' = i
                 /\ \A d \in Callers : pc'[d] = "post" /\ heldGen'[d] = i => held'[d] = i
      <4>1. CASE i = gen + 1
        BY <2>1, <2>3, <3>2, <3>3, <4>1
      <4>2. CASE i # gen + 1
        BY <2>1, <2>2, <2>3, <3>3, <4>2 DEF Named
      <4> QED
        BY <4>1, <4>2
    <3>4. \A d \in Callers : pc'[d] = "post" /\ heldGen'[d] = gen' => held'[d] = token'
      BY <2>1, <3>2
    <3> QED
      BY <3>1, <3>3, <3>4 DEF Named
<1>3. ASSUME NEW c \in Callers, Publish(c) PROVE Named'
  <2>1. UNCHANGED <<gen, token, held, heldGen>>
    BY <1>3 DEF Publish
  <2>2. pc'[c] = "post" => /\ mine[c] \in 1..gen /\ heldGen[c] = mine[c] /\ held[c] = mine[c]
                           /\ Succeeded(mine[c])
    BY <1>0, <1>3 DEF TypeOK, Leading, Publish, Succeeded, AfterObtain
  <2>3. \A d \in Callers \ {c} : pc'[d] = pc[d]
    BY <1>0, <1>3 DEF TypeOK, Publish
  <2>4. \A i \in 1..gen' : Succeeded(i)' => i \in 1..gen /\ Succeeded(i)
    BY <1>3, SucceededStep DEF Step, Publish, Commit
  <2> QED
    BY <2>1, <2>2, <2>3, <2>4 DEF Named, GenerationNamesOneToken
<1>4. ASSUME NEW c \in Callers, Share(c) PROVE Named'
  <2>1. UNCHANGED <<gen, token>>
    BY <1>4 DEF Share, session
  <2>2. mine[c] \in 1..Len(attempts) /\ Published(mine[c])
    BY <1>0, <1>4 DEF Inv, Waiting, Share
  <2>3. pc'[c] = "post" => /\ mine[c] \in 1..gen /\ heldGen'[c] = mine[c] /\ held'[c] = mine[c]
                           /\ Succeeded(mine[c])
    <3>1. pc'[c] = "post" => attempts[mine[c]].err = "ok"
      BY <1>0, <1>4 DEF TypeOK, Share, AfterObtain
    <3>2. /\ attempts[mine[c]].done
          /\ heldGen'[c] = attempts[mine[c]].gen /\ held'[c] = attempts[mine[c]].token
      BY <1>0, <1>4 DEF TypeOK, Share
    <3> QED
      BY <1>0, <2>2, <3>1, <3>2 DEF TypeOK, Published, Succeeded
  <2>4. \A d \in Callers \ {c} : UNCHANGED <<pc[d], held[d], heldGen[d]>>
    BY <1>0, <1>4 DEF TypeOK, Share
  <2>5. \A i \in 1..gen' : Succeeded(i)' => i \in 1..gen /\ Succeeded(i)
    BY <1>4, SucceededStep DEF Step, Share, Commit
  <2> QED
    BY <2>1, <2>3, <2>4, <2>5 DEF Named, GenerationNamesOneToken
<1>5. ASSUME NEW c \in Callers,
             \/ Do(c) \/ Join(c) \/ Lead(c) \/ LoginReturns(c)
             \/ Refresh(c) \/ RejectAfterRefresh(c) \/ PostReturns(c)
      PROVE  Named'
  <2>1. UNCHANGED <<gen, token, held, heldGen>>
    BY <1>5 DEF Do, Join, Lead, LoginReturns, Refresh, RejectAfterRefresh, PostReturns, session
  <2>2. \A d \in Callers : pc'[d] = "post" => pc[d] = "post"
    BY <1>0, <1>5
       DEF TypeOK, Do, Join, Lead, LoginReturns, Refresh, RejectAfterRefresh, PostReturns
  <2>3. \A i \in 1..gen' : Succeeded(i)' => i \in 1..gen /\ Succeeded(i)
    BY <1>0, <1>5, <2>1, SucceededStep DEF TypeOK, Step
  <2> QED
    BY <2>1, <2>2, <2>3 DEF Named, GenerationNamesOneToken
<1>6. CASE UNCHANGED vars
  BY <1>6 DEF Named, GenerationNamesOneToken, Succeeded, vars
<1> QED
  BY <1>1, <1>2, <1>3, <1>4, <1>5, <1>6 DEF Next, Step, Finished

(* Callers with the same generation have the same token, so that judging   *)
(* staleness by the generation alone is sound, for any number of callers.  *)
THEOREM TokenOfGeneration == Spec => []GenerationNamesOneToken
<1>1. Init => Named
  BY InitNamed
<1>2. Inv /\ Named /\ [Next]_vars => Named'
  BY NamedStep
<1>3. Named => GenerationNamesOneToken
  BY DEF Named
<1> QED
  BY <1>1, <1>2, <1>3, Invariance, PTL DEF Spec

-----------------------------------------------------------------------------
(* The values that the refinement mapping gives to the abstract variables. *)
InFlight == \E c \in Callers : LoggingIn(c)
AskingCallers == {c \in Callers : Asking(c)}
SeenBy == [c \in Callers |-> IF Asking(c) THEN stale[c] ELSE heldGen[c]]

(* A step of caller c changes what the mapping says of c only.             *)
LEMMA MappedStep ==
  ASSUME Inv, NEW c \in Callers, Do(c) \/ Step(c)
  PROVE  /\ AskingCallers' = IF Asking(c)' THEN AskingCallers \cup {c} ELSE AskingCallers \ {c}
         /\ SeenBy' = [SeenBy EXCEPT ![c] = IF Asking(c)' THEN stale'[c] ELSE heldGen'[c]]
<1>1. TypeOK /\ TypeOK'
  BY TypeStep DEF Inv, Next
<1>2. \A d \in Callers \ {c} : UNCHANGED <<pc[d], stale[d], heldGen[d]>>
  BY <1>1 DEF TypeOK, Step, Do, UseCached, Join, Lead, LoginReturns, Commit, Publish, Share,
              Refresh, RejectAfterRefresh, PostReturns
<1> QED
  BY <1>1, <1>2 DEF TypeOK, AskingCallers, SeenBy, Asking

(* Only the two ends of a login change whether one is in flight.           *)
LEMMA MappedFlight ==
  ASSUME Inv, NEW c \in Callers, Do(c) \/ Step(c)
  PROVE  /\ Lead(c) => ~InFlight /\ InFlight'
         /\ Commit(c) => InFlight /\ ~InFlight'
         /\ ~Lead(c) /\ ~Commit(c) => InFlight' = InFlight
<1>0. TypeOK /\ AtMostOneLogin /\ \A d \in Callers : Leading(d)
  BY DEF Inv
<1>1. CASE Lead(c)
  BY <1>0, <1>1 DEF TypeOK, Leading, Lead, Commit, InFlight, LoggingIn
<1>2. CASE Commit(c)
  <2>1. LoggingIn(c) /\ \A d \in Callers : LoggingIn(d) => d = c
    BY <1>0, <1>2 DEF AtMostOneLogin, LoggingIn, Commit
  <2>2. \A d \in Callers : ~LoggingIn(d)'
    BY <1>0, <1>2, <2>1 DEF TypeOK, LoggingIn, Commit
  <2> QED
    BY <1>2, <2>1, <2>2 DEF InFlight, Lead, Commit
<1>3. CASE ~Lead(c) /\ ~Commit(c)
  <2>1. \A d \in Callers : LoggingIn(d)' <=> LoggingIn(d)
    BY <1>0, <1>3
       DEF TypeOK, LoggingIn, Step, Do, UseCached, Join, LoginReturns, Publish, Share,
           Refresh, RejectAfterRefresh, PostReturns, AfterObtain
  <2> QED
    BY <1>3, <2>1 DEF InFlight
<1> QED
  BY <1>1, <1>2, <1>3

(* Every step of the session is a step of the single flight, or changes    *)
(* nothing that it speaks of.                                              *)
LEMMA RefinementStep == Inv /\ [Next]_vars => [SF!Next]_SF!vars
<1> SUFFICES ASSUME Inv, [Next]_vars
             PROVE  [SF!Next]_<<gen, InFlight, AskingCallers, SeenBy>>
  BY DEF SF!vars, InFlight, AskingCallers, SeenBy
<1> USE DEF SF!NoGen
<1>0. TypeOK /\ \A c \in Callers : Known(c) /\ Leading(c) /\ Waiting(c)
  BY DEF Inv
<1>seen. SeenBy \in [Callers -> Nat \cup {NoGen}]
  BY <1>0 DEF TypeOK, SeenBy
<1>1. ASSUME NEW c \in Callers, Do(c) PROVE SF!Ask(c)
  <2>1. c \notin AskingCallers /\ Asking(c)' /\ stale'[c] = NoGen /\ gen' = gen
    BY <1>0, <1>1 DEF TypeOK, AskingCallers, Asking, Do, session
  <2>2. InFlight' = InFlight
    BY <1>1, MappedFlight DEF Do, Lead, Commit
  <2>3. /\ AskingCallers' = AskingCallers \cup {c}
        /\ SeenBy' = [SeenBy EXCEPT ![c] = NoGen]
    BY <1>1, <2>1, MappedStep
  <2> QED
    BY <2>1, <2>2, <2>3 DEF SF!Ask, InFlight, AskingCallers, SeenBy
<1>2. ASSUME NEW c \in Callers, Refresh(c) PROVE SF!Ask(c)
  <2>1. /\ c \notin AskingCallers /\ Asking(c)' /\ stale'[c] = heldGen[c] /\ gen' = gen
        /\ SeenBy[c] = heldGen[c]
    BY <1>0, <1>2 DEF TypeOK, AskingCallers, SeenBy, Asking, Refresh, session
  <2>2. InFlight' = InFlight
    BY <1>2, MappedFlight DEF Step, Refresh, Lead, Commit
  <2>3. /\ AskingCallers' = AskingCallers \cup {c}
        /\ SeenBy' = [SeenBy EXCEPT ![c] = heldGen[c]]
    BY <1>2, <2>1, MappedStep DEF Step
  <2>4. SeenBy' = SeenBy
    BY <1>seen, <2>1, <2>3
  <2> QED
    BY <2>1, <2>2, <2>3, <2>4 DEF SF!Ask, InFlight, AskingCallers, SeenBy
<1>3. ASSUME NEW c \in Callers, UseCached(c) \/ Publish(c) \/ Share(c) PROVE SF!Answer(c)
  <2>1. /\ c \in AskingCallers /\ ~Asking(c)' /\ SeenBy[c] = stale[c] /\ gen' = gen
    <3>1. gen' = gen /\ pc[c] \in {"obtain", "wait", "publish"}
      BY <1>3 DEF UseCached, Publish, Share, session
    <3>2. pc'[c] \in {"post", "idle", "panicked"}
      BY <1>0, <1>3 DEF TypeOK, UseCached, Publish, Share, AfterObtain
    <3> QED
      BY <3>1, <3>2 DEF AskingCallers, SeenBy, Asking
  <2>2. heldGen'[c] \in 1..gen /\ heldGen'[c] > stale[c]
    <3>1. CASE UseCached(c)
      <4>1. heldGen'[c] = gen /\ gen # stale[c] /\ token # NoToken
        BY <1>0, <3>1 DEF TypeOK, UseCached, HasNewer
      <4>2. stale[c] \in Nat \cup {NoGen} /\ (stale[c] # NoGen => stale[c] <= gen)
        BY <1>0 DEF TypeOK, Known
      <4> QED
        BY <1>0, <4>1, <4>2 DEF TypeOK
    <3>2. CASE Publish(c)
      BY <1>0, <3>2 DEF TypeOK, Known, Leading, Publish
    <3>3. CASE Share(c)
      <4>1. mine[c] \in 1..Len(attempts) /\ Published(mine[c])
        BY <1>0, <3>3 DEF Inv, Waiting, Share
      <4> QED
        BY <1>0, <3>3, <4>1 DEF TypeOK, Known, Published, Share
    <3> QED
      BY <1>3, <3>1, <3>2, <3>3
  <2>3. InFlight' = InFlight
    BY <1>3, MappedFlight DEF Step, UseCached, Publish, Share, Lead, Commit
  <2>4. /\ AskingCallers' = AskingCallers \ {c}
        /\ SeenBy' = [SeenBy EXCEPT ![c] = heldGen'[c]]
    BY <1>3, <2>1, MappedStep DEF Step
  <2> QED
    BY <2>1, <2>2, <2>3, <2>4 DEF SF!Answer, InFlight, AskingCallers, SeenBy
<1>4. ASSUME NEW c \in Callers, Lead(c) PROVE SF!Launch
  <2>1. /\ c \in AskingCallers /\ Asking(c)' /\ stale' = stale /\ gen' = gen
        /\ SeenBy[c] = stale[c] /\ stale[c] \in {NoGen, gen}
    BY <1>0, <1>4 DEF TypeOK, Known, AskingCallers, SeenBy, Asking, Lead, HasNewer
  <2>2. ~InFlight /\ InFlight'
    BY <1>4, MappedFlight DEF Step
  <2>3. AskingCallers' = AskingCallers /\ SeenBy' = SeenBy
    BY <1>4, <1>seen, <2>1, MappedStep DEF Step
  <2> QED
    BY <2>1, <2>2, <2>3 DEF SF!Launch, InFlight, AskingCallers, SeenBy
<1>5. ASSUME NEW c \in Callers, Commit(c) PROVE SF!Land
  <2>1. /\ c \in AskingCallers /\ Asking(c)' /\ stale' = stale /\ gen' = gen + 1
        /\ SeenBy[c] = stale[c]
    BY <1>0, <1>5 DEF TypeOK, AskingCallers, SeenBy, Asking, Commit
  <2>2. InFlight /\ ~InFlight'
    BY <1>5, MappedFlight DEF Step
  <2>3. AskingCallers' = AskingCallers /\ SeenBy' = SeenBy
    BY <1>5, <1>seen, <2>1, MappedStep DEF Step
  <2> QED
    BY <2>1, <2>2, <2>3 DEF SF!Land, InFlight, AskingCallers, SeenBy
<1>6. ASSUME NEW c \in Callers,
             Join(c) \/ LoginReturns(c) \/ RejectAfterRefresh(c) \/ PostReturns(c)
      PROVE  UNCHANGED <<gen, InFlight, AskingCallers, SeenBy>>
  <2>1. /\ gen' = gen /\ stale' = stale /\ heldGen' = heldGen
        /\ Asking(c)' <=> Asking(c)
    BY <1>0, <1>6 DEF TypeOK, Asking, Join, LoginReturns, RejectAfterRefresh, PostReturns, session
  <2>2. InFlight' = InFlight
    <3>1. ~Lead(c) /\ ~Commit(c)
      BY <1>6 DEF Join, LoginReturns, RejectAfterRefresh, PostReturns, Lead, Commit
    <3> QED
      BY <1>6, <3>1, MappedFlight DEF Step
  <2>3. AskingCallers' = AskingCallers /\ SeenBy' = SeenBy
    BY <1>6, <1>seen, <2>1, MappedStep DEF Step, AskingCallers, SeenBy
  <2> QED
    BY <2>1, <2>2, <2>3
<1>7. CASE UNCHANGED vars
  BY <1>7 DEF vars, InFlight, AskingCallers, SeenBy, LoggingIn, Asking
<1> QED
  BY <1>1, <1>2, <1>3, <1>4, <1>5, <1>6, <1>7 DEF Next, Step, Finished, SF!Next

(* The session implements the abstract single flight: nobody behind the    *)
(* newest generation ever costs the appliance a login, and every answer is *)
(* newer than what its caller had seen.                                    *)
THEOREM SessionRefinesSingleFlight == Spec => ImplementsSingleFlight
<1>1. Init => SF!Init
  BY DEF Init, SF!Init, SF!NoGen, LoggingIn, Asking
<1>2. Inv /\ [Next]_vars => [SF!Next]_SF!vars
  BY RefinementStep
<1> QED
  BY <1>1, <1>2, Invariance, PTL DEF Spec, SF!Spec, ImplementsSingleFlight
=============================================================================
