---------------------------- MODULE StaffLoginProofs ----------------------------
(***************************************************************************)
(* Proofs about StaffLogin, for every finite set of attempts and every     *)
(* limit.                                                                  *)
(***************************************************************************)
EXTENDS StaffLogin, FiniteSetTheorems, TLAPS

\* The invariant of the limiter, in parts.

\* The counter is the number of attempts that the running window counted,
\* each of them once.
CountsAttempts ==
    /\ hits = Cardinality(CountedIn(window))
    /\ \A a \in Attempts : pc[a] = "incr" => within[a] = -1

\* The attempts of the windows that have ended.
Earlier == {a \in Attempts : within[a] \in 0 .. (window - 1)}

\* A window that ended had counted an attempt.
WindowsUsed == window <= Cardinality(Earlier)

\* One attempt at most is about to give the counter its TTL, a counter that
\* exists and has none.
OneOpener ==
    /\ \A a \in Attempts : pc[a] = "expire" => hits > 0
    /\ \A a, b \in Attempts : pc[a] = "expire" /\ pc[b] = "expire" => a = b

\* What INCR returned is not more than the attempts of its window.
Ranked ==
    \A a \in Attempts :
        pc[a] \in {"expire", "ttl"} =>
            /\ within[a] \in 0 .. window
            /\ rank[a] \in 1 .. Cardinality(CountedIn(within[a]))

\* The attempts of a window that the limiter lets pass, or will.
Admitted(w) ==
    {a \in CountedIn(w) \ blind :
        \/ a \in Passed
        \/ pc[a] \in {"expire", "ttl"} /\ rank[a] <= Limit}

AdmittedWithin == \A w \in 0 .. window : Cardinality(Admitted(w)) <= Limit

RefusedBeyond ==
    \A a \in Attempts :
        pc[a] = "refused" =>
            within[a] \in 0 .. window /\ Cardinality(CountedIn(within[a])) > Limit

LimiterInv ==
    /\ TypeOK
    /\ CountsAttempts
    /\ WindowsUsed
    /\ OneOpener
    /\ Ranked
    /\ AdmittedWithin
    /\ RefusedBeyond

\* A token is signed before the session is stored and handed out after that.
StoredBeforeUse ==
    \A a \in Attempts :
        /\ pc[a] \in {"session", "holding", "exists"} => token[a] # "none"
        /\ pc[a] \in {"holding", "exists"} /\ token[a] = "valid" => a \in sessions
-----------------------------------------------------------------------------
\* Sets of attempts are finite and counted by naturals.
LEMMA AttemptsFinite ==
    ASSUME NEW S \in SUBSET Attempts
    PROVE  /\ IsFiniteSet(S)
           /\ Cardinality(S) \in 0 .. Cardinality(Attempts)
           /\ Cardinality(Attempts) \in Nat
           /\ \A T \in SUBSET S : Cardinality(T) <= Cardinality(S)
<1>1. IsFiniteSet(Attempts)
  BY LoginAssumption
<1>2. IsFiniteSet(S) /\ Cardinality(S) <= Cardinality(Attempts)
  BY <1>1, FS_Subset
<1>3. \A T \in SUBSET S : Cardinality(T) <= Cardinality(S)
  BY <1>2, FS_Subset
<1> QED BY <1>1, <1>2, <1>3, FS_CardinalityType

\* INCR counts an attempt in the running window and in no other.
LEMMA CountedOnce ==
    ASSUME TypeOK, CountsAttempts,
           NEW a \in Attempts, pc[a] = "incr", Counted(a)
    PROVE  /\ \A w \in 0 .. window :
                  CountedIn(w)' = IF w = window THEN CountedIn(w) \cup {a}
                                                ELSE CountedIn(w)
           /\ hits' = hits + 1
           /\ hits' = Cardinality(CountedIn(window)')
           /\ hits' \in 1 .. Cardinality(Attempts)
           /\ within' \in [Attempts -> -1 .. window]
           /\ within'[a] = window
           /\ Earlier' = Earlier
<1>1. /\ within' = [within EXCEPT ![a] = window]
      /\ within[a] = -1
      /\ window \in Nat /\ window' = window /\ hits' = hits + 1 /\ hits \in Nat
  BY AttemptsFinite DEF TypeOK, CountsAttempts, Counted
<1>2. \A w \in 0 .. window :
          CountedIn(w)' = IF w = window THEN CountedIn(w) \cup {a}
                                        ELSE CountedIn(w)
  BY <1>1 DEF CountedIn, TypeOK
<1>3. CountedIn(window) \in SUBSET Attempts /\ a \notin CountedIn(window)
  BY <1>1 DEF CountedIn
<1>4. Cardinality(CountedIn(window) \cup {a}) = hits + 1
  BY <1>3, AttemptsFinite, FS_AddElement DEF CountsAttempts
<1>5. CountedIn(window)' = CountedIn(window) \cup {a}
  BY <1>1, <1>2
<1>6. hits + 1 <= Cardinality(Attempts)
  BY <1>3, <1>4, AttemptsFinite
<1>7. /\ within' \in [Attempts -> -1 .. window]
      /\ within'[a] = window
      /\ Earlier' = Earlier
  BY <1>1 DEF TypeOK, Earlier
<1> QED BY <1>1, <1>2, <1>4, <1>5, <1>6, <1>7, AttemptsFinite

\* Every other step leaves the counts alone.
LEMMA CountsKept ==
    ASSUME UNCHANGED <<window, within>>
    PROVE  Earlier' = Earlier /\ \A w : CountedIn(w)' = CountedIn(w)
BY DEF Earlier, CountedIn

\* The end of a window leaves the attempts it counted among the earlier ones.
LEMMA WindowEffect ==
    ASSUME TypeOK, CountsAttempts, WindowsUsed, WindowEnds
    PROVE  /\ hits' = Cardinality(CountedIn(window)')
           /\ WindowsUsed'
           /\ window' \in 0 .. Cardinality(Attempts)
           /\ \A w : CountedIn(w)' = CountedIn(w)
           /\ CountedIn(window') = {}
<1>1. /\ window \in Nat /\ window' = window + 1
      /\ hits # 0 /\ hits' = 0 /\ within' = within
  BY DEF TypeOK, WindowEnds
<1>2. \A w : CountedIn(w)' = CountedIn(w)
  BY <1>1 DEF CountedIn
<1>3. CountedIn(window') = {}
  BY <1>1 DEF CountedIn, TypeOK
<1>4. PICK a \in CountedIn(window) : TRUE
  BY <1>1, FS_EmptySet DEF CountsAttempts
<1>5. /\ Earlier \in SUBSET Attempts /\ Earlier' \in SUBSET Attempts
      /\ a \notin Earlier /\ Earlier \cup {a} \in SUBSET Earlier'
  BY <1>1, <1>4 DEF Earlier, CountedIn, TypeOK
<1>6. Cardinality(Earlier \cup {a}) = Cardinality(Earlier) + 1
  BY <1>5, AttemptsFinite, FS_AddElement
<1>7. Cardinality(Earlier) + 1 <= Cardinality(Earlier')
  BY <1>5, <1>6, AttemptsFinite
<1>8. /\ Cardinality(Earlier) \in Nat
      /\ Cardinality(Earlier') \in 0 .. Cardinality(Attempts)
      /\ Cardinality(Attempts) \in Nat
  BY <1>5, AttemptsFinite
<1>9. window' <= Cardinality(Earlier') /\ window' \in 0 .. Cardinality(Attempts)
  BY <1>1, <1>7, <1>8 DEF WindowsUsed
<1> QED
  <2>1. CountedIn(window)' = {}
    BY <1>3 DEF CountedIn, WindowEnds
  <2> QED BY <1>1, <1>2, <1>3, <1>9, <2>1, FS_EmptySet DEF WindowsUsed

\* The types, and what keeps the counter to one EXPIRE.
LEMMA CounterStep ==
    ASSUME TypeOK, CountsAttempts, WindowsUsed, OneOpener, [Next]_vars
    PROVE  TypeOK' /\ OneOpener'
<1> USE DEF Limiting, Ended
<1>0. Cardinality(Attempts) \in Nat
  BY AttemptsFinite
<1>1. ASSUME NEW a \in Attempts, Incr(a) PROVE TypeOK' /\ OneOpener'
  <2>1. /\ hits' = hits + 1 /\ hits' \in 1 .. Cardinality(Attempts)
        /\ within' \in [Attempts -> -1 .. window]
    BY <1>1, CountedOnce DEF Incr
  <2> QED
    BY <1>1, <1>0, <2>1
    DEF TypeOK, OneOpener, Incr, Counted, OpensWindow, Goto, login
<1>2. ASSUME NEW a \in Attempts, Expire(a) PROVE TypeOK' /\ OneOpener'
  BY <1>2, <1>0
  DEF TypeOK, OneOpener, Expire, Goto, Leased, login
<1>3. ASSUME NEW a \in Attempts, Ttl(a) PROVE TypeOK' /\ OneOpener'
  BY <1>3, <1>0
  DEF TypeOK, OneOpener, Ttl, Goto, WithinLimit, counter, login
<1>4. ASSUME NEW a \in Attempts, Bypass(a) PROVE TypeOK' /\ OneOpener'
  <2>1. Counted(a) /\ pc[a] = "incr" =>
            /\ hits' = hits + 1 /\ hits' \in 1 .. Cardinality(Attempts)
            /\ within' \in [Attempts -> -1 .. window]
            /\ UNCHANGED <<leased, window>>
    BY CountedOnce DEF Counted
  <2>2. CASE Counted(a) /\ pc[a] = "incr" /\ orphaned' = (orphaned \/ OpensWindow(hits + 1))
    <3>1. orphaned' \in BOOLEAN
      BY <2>2
    <3>2. /\ pc' = [pc EXCEPT ![a] = "find"] /\ rank' = [rank EXCEPT ![a] = 0]
          /\ blind' = blind \cup {a} /\ UNCHANGED <<sessions, token>>
      BY <1>4 DEF Bypass, Goto, login
    <3> QED
      BY <1>0, <2>1, <2>2, <3>1, <3>2 DEF TypeOK, OneOpener
  <2>3. CASE UNCHANGED <<counter, within>> /\ orphaned' = (orphaned \/ pc[a] = "expire")
    BY <1>4, <1>0, <2>3 DEF TypeOK, OneOpener, Bypass, Goto, login, counter
  <2>4. CASE pc[a] = "expire" /\ Leased /\ UNCHANGED <<hits, window, within, orphaned>>
    BY <1>4, <1>0, <2>4 DEF TypeOK, OneOpener, Bypass, Leased, Goto, login
  <2> QED BY <1>4, <2>2, <2>3, <2>4 DEF Bypass
<1>5. ASSUME NEW a \in Attempts, CheckPassword(a) PROVE TypeOK' /\ OneOpener'
  BY <1>5, <1>0
  DEF TypeOK, OneOpener, CheckPassword, Goto, limiter, counter
<1>6. ASSUME NEW a \in Attempts, SetSession(a) PROVE TypeOK' /\ OneOpener'
  BY <1>6, <1>0
  DEF TypeOK, OneOpener, SetSession, Goto, limiter, counter
<1>7. ASSUME NEW a \in Attempts, LoginFails(a) PROVE TypeOK' /\ OneOpener'
  BY <1>7, <1>0
  DEF TypeOK, OneOpener, LoginFails, Goto, SessionError, limiter, counter
<1>8. ASSUME NEW a \in Attempts, Verify(a) PROVE TypeOK' /\ OneOpener'
  BY <1>8, <1>0
  DEF TypeOK, OneOpener, Verify, Goto, limiter, counter, login
<1>9. ASSUME NEW a \in Attempts, HasSession(a) PROVE TypeOK' /\ OneOpener'
  BY <1>9, <1>0
  DEF TypeOK, OneOpener, HasSession, Goto, limiter, counter, login
<1>10. ASSUME NEW a \in Attempts, Crash(a) PROVE TypeOK' /\ OneOpener'
  BY <1>10, <1>0
  DEF TypeOK, OneOpener, Crash, Goto, counter, login
<1>11. ASSUME NEW a \in Attempts, TokenExpires(a) PROVE TypeOK' /\ OneOpener'
  BY <1>11, <1>0
  DEF TypeOK, OneOpener, TokenExpires, limiter, counter
<1>12. ASSUME NEW a \in Attempts, SessionExpires(a) PROVE TypeOK' /\ OneOpener'
  BY <1>12, <1>0
  DEF TypeOK, OneOpener, SessionExpires, limiter, counter
<1>13. ASSUME WindowEnds PROVE TypeOK' /\ OneOpener'
  <2>1. /\ window' \in 0 .. Cardinality(Attempts) /\ window' = window + 1
        /\ hits' = 0 /\ hits > 0 /\ ~leased' /\ leased
    BY <1>13, WindowEffect DEF TypeOK, WindowEnds
  <2>2. within' \in [Attempts -> -1 .. window']
    BY <1>13, <2>1 DEF TypeOK, WindowEnds
  <2> QED
    BY <1>13, <1>0, <2>1, <2>2 DEF TypeOK, OneOpener, WindowEnds, login
<1>14. CASE UNCHANGED vars
  BY <1>14, <1>0 DEF TypeOK, OneOpener, vars, counter
<1> QED
  BY <1>1, <1>2, <1>3, <1>4, <1>5, <1>6, <1>7, <1>8, <1>9, <1>10, <1>11,
     <1>12, <1>13, <1>14
  DEF Next, Handler, Quiet

\* The counts stay true, and the attempts of a window only grow in number.
LEMMA CountsStep ==
    ASSUME TypeOK, CountsAttempts, WindowsUsed, [Next]_vars
    PROVE  /\ CountsAttempts' /\ WindowsUsed'
           /\ window' \in {window, window + 1}
           /\ \A w \in 0 .. window : CountedIn(w) \subseteq CountedIn(w)'
<1> USE DEF Limiting, Ended
<1> DEFINE Goal == /\ CountsAttempts' /\ WindowsUsed'
                   /\ window' \in {window, window + 1}
                   /\ \A w \in 0 .. window : CountedIn(w) \subseteq CountedIn(w)'
<1>a. window \in Nat
  BY AttemptsFinite DEF TypeOK
<1>b. ASSUME UNCHANGED <<hits, window, within>>,
             \A a \in Attempts : pc'[a] = "incr" => pc[a] = "incr"
      PROVE  Goal
  BY <1>b, CountsKept DEF CountsAttempts, WindowsUsed
<1>c. ASSUME NEW a \in Attempts, pc[a] = "incr", Counted(a),
             pc' \in {[pc EXCEPT ![a] = l] : l \in {"expire", "ttl", "find"}}
      PROVE  Goal
  <2> QED
    BY <1>a, <1>c, CountedOnce DEF CountsAttempts, WindowsUsed, TypeOK, Counted
<1>1. ASSUME NEW a \in Attempts, Incr(a) PROVE Goal
  BY <1>1, <1>c DEF Incr, Goto
<1>2. ASSUME NEW a \in Attempts, Bypass(a) PROVE Goal
  <2>1. CASE Counted(a) /\ pc[a] = "incr"
    BY <1>2, <1>c, <2>1 DEF Bypass, Goto
  <2>2. CASE UNCHANGED <<hits, window, within>>
    BY <1>2, <1>b, <2>2 DEF Bypass, Goto, TypeOK
  <2> QED BY <1>2, <2>1, <2>2 DEF Bypass, counter
<1>3. ASSUME NEW a \in Attempts,
             \/ Expire(a) \/ Ttl(a) \/ CheckPassword(a) \/ SetSession(a)
             \/ LoginFails(a) \/ Verify(a) \/ HasSession(a) \/ Crash(a)
             \/ TokenExpires(a) \/ SessionExpires(a)
      PROVE  Goal
  <2>1. UNCHANGED <<hits, window, within>>
    BY <1>3
    DEF Expire, Ttl, CheckPassword, SetSession, LoginFails, Verify, HasSession,
        Crash, TokenExpires, SessionExpires, limiter, counter
  <2>2. \A b \in Attempts : pc'[b] = "incr" => pc[b] = "incr"
    BY <1>3
    DEF TypeOK, Expire, Ttl, CheckPassword, SetSession, LoginFails, Verify,
        HasSession, Crash, TokenExpires, SessionExpires, Goto, WithinLimit,
        SessionError
  <2> QED BY <1>b, <2>1, <2>2
<1>4. ASSUME WindowEnds PROVE Goal
  BY <1>4, WindowEffect DEF CountsAttempts, WindowEnds
<1>5. CASE UNCHANGED vars
  BY <1>5, <1>b DEF vars
<1> QED
  BY <1>1, <1>2, <1>3, <1>4, <1>5 DEF Next, Handler, Quiet

\* The rank of an attempt is at most the number of attempts of its window.
LEMMA RankStep ==
    ASSUME TypeOK, CountsAttempts, WindowsUsed, Ranked, RefusedBeyond,
           [Next]_vars
    PROVE  Ranked' /\ RefusedBeyond'
<1> USE DEF Limiting, Ended
<1>0. /\ window \in Nat /\ window' \in Nat /\ window <= window'
      /\ Limit \in Nat
  BY AttemptsFinite, CountsStep, LoginAssumption DEF TypeOK
<1>a. \A w \in 0 .. window :
          /\ Cardinality(CountedIn(w)) \in Nat
          /\ Cardinality(CountedIn(w)') \in Nat
          /\ Cardinality(CountedIn(w)) <= Cardinality(CountedIn(w)')
  <2>1. \A w : CountedIn(w) \in SUBSET Attempts /\ CountedIn(w)' \in SUBSET Attempts
    BY DEF CountedIn
  <2>2. \A w \in 0 .. window : CountedIn(w) \subseteq CountedIn(w)'
    BY CountsStep
  <2> QED BY <2>1, <2>2, AttemptsFinite
\* An attempt that was counted and whose step counts nothing.
<1>b. ASSUME NEW a \in Attempts, within'[a] = within[a], rank'[a] = rank[a],
             pc[a] \in {"expire", "ttl"}, pc'[a] \in {"expire", "ttl"}
      PROVE  /\ within'[a] \in 0 .. window'
             /\ rank'[a] \in 1 .. Cardinality(CountedIn(within[a])')
  <2>1. within[a] \in 0 .. window /\ rank[a] \in 1 .. Cardinality(CountedIn(within[a]))
    BY <1>b DEF Ranked
  <2> QED BY <1>0, <1>a, <1>b, <2>1
<1>c. ASSUME NEW a \in Attempts, within'[a] = within[a], pc[a] = "refused"
      PROVE  /\ within'[a] \in 0 .. window'
             /\ Cardinality(CountedIn(within[a])') > Limit
  <2>1. within[a] \in 0 .. window /\ Cardinality(CountedIn(within[a])) > Limit
    BY <1>c DEF RefusedBeyond
  <2> QED BY <1>0, <1>a, <1>c, <2>1
\* A step that counts nothing and neither ranks nor refuses an attempt.
<1>d. ASSUME UNCHANGED within,
             \A a \in Attempts :
                /\ pc'[a] \in {"expire", "ttl"} =>
                       pc[a] \in {"expire", "ttl"} /\ rank'[a] = rank[a]
                /\ pc'[a] = "refused" => pc[a] = "refused"
      PROVE  Ranked' /\ RefusedBeyond'
  <2>1. \A a \in Attempts :
            CountedIn(within[a])' = {b \in Attempts : within[b] = within[a]}
    BY <1>d DEF CountedIn
  <2> QED
    BY <1>b, <1>c, <1>d, <2>1 DEF Ranked, RefusedBeyond, CountedIn
<1>1. ASSUME NEW a \in Attempts, Incr(a) PROVE Ranked' /\ RefusedBeyond'
  <2>1. /\ within' = [within EXCEPT ![a] = window]
        /\ rank'[a] = hits + 1 /\ hits \in Nat /\ window' = window
        /\ hits + 1 = Cardinality(CountedIn(window)')
        /\ pc' \in {[pc EXCEPT ![a] = l] : l \in {"expire", "ttl"}}
        /\ rank' = [rank EXCEPT ![a] = hits + 1]
    <3>1. /\ hits' = hits + 1 /\ hits' = Cardinality(CountedIn(window)')
      BY <1>1, CountedOnce DEF Incr
    <3>2. pc' \in {[pc EXCEPT ![a] = l] : l \in {"expire", "ttl"}}
      BY <1>1 DEF Incr, Goto
    <3>3. hits \in Nat
      BY AttemptsFinite DEF TypeOK
    <3> QED
      BY <1>1, <3>1, <3>2, <3>3 DEF Incr, Counted, TypeOK
  <2>2. CountedIn(window)' = CountedIn(within[a])'
    BY <1>0, <2>1 DEF CountedIn, TypeOK
  <2>3. /\ within'[a] \in 0 .. window'
        /\ rank'[a] \in 1 .. Cardinality(CountedIn(within[a])')
    BY <1>0, <2>1, <2>2 DEF TypeOK
  <2>4. ASSUME NEW b \in Attempts, b # a
        PROVE  within'[b] = within[b] /\ rank'[b] = rank[b] /\ pc'[b] = pc[b]
    BY <2>1, <2>4 DEF TypeOK
  <2> QED
    BY <1>b, <1>c, <2>1, <2>3, <2>4 DEF Ranked, RefusedBeyond, TypeOK
<1>2. ASSUME NEW a \in Attempts, Bypass(a) PROVE Ranked' /\ RefusedBeyond'
  <2>1. /\ pc' = [pc EXCEPT ![a] = "find"]
        /\ \A b \in Attempts :
              b # a => within'[b] = within[b] /\ rank'[b] = rank[b] /\ pc'[b] = pc[b]
    BY <1>2 DEF TypeOK, Bypass, Counted, Goto, counter
  <2> QED
    BY <1>b, <1>c, <2>1 DEF Ranked, RefusedBeyond, TypeOK
<1>3. ASSUME NEW a \in Attempts, Ttl(a) PROVE Ranked' /\ RefusedBeyond'
  <2>1. /\ pc[a] = "ttl" /\ UNCHANGED <<within, window>>
        /\ pc'[a] = "refused" => ~(rank[a] <= Limit)
        /\ pc'[a] \in {"find", "refused"}
        /\ \A b \in Attempts : b # a => rank'[b] = rank[b] /\ pc'[b] = pc[b]
    BY <1>3 DEF TypeOK, Ttl, Goto, WithinLimit, counter
  <2>2. within[a] \in 0 .. window /\ rank[a] \in 1 .. Cardinality(CountedIn(within[a]))
    BY <2>1 DEF Ranked
  <2>3. pc'[a] = "refused" =>
            /\ within'[a] \in 0 .. window'
            /\ Cardinality(CountedIn(within[a])') > Limit
    <3>1. CountedIn(within[a])' = CountedIn(within[a])
      BY <2>1 DEF CountedIn
    <3> QED BY <1>0, <1>a, <2>1, <2>2, <3>1
  <2> QED
    BY <1>b, <1>c, <2>1, <2>3 DEF Ranked, RefusedBeyond, TypeOK
<1>4. ASSUME NEW a \in Attempts,
             \/ Expire(a) \/ CheckPassword(a) \/ SetSession(a)
             \/ LoginFails(a) \/ Verify(a) \/ HasSession(a) \/ Crash(a)
             \/ TokenExpires(a) \/ SessionExpires(a)
      PROVE  Ranked' /\ RefusedBeyond'
  BY <1>4, <1>d
  DEF TypeOK, Expire, CheckPassword, SetSession, LoginFails, Verify, HasSession,
      Crash, TokenExpires, SessionExpires, Goto, SessionError, limiter, counter
<1>5. ASSUME WindowEnds PROVE Ranked' /\ RefusedBeyond'
  BY <1>5, <1>d DEF WindowEnds
<1>6. CASE UNCHANGED vars
  BY <1>6, <1>d DEF vars, counter
<1> QED
  BY <1>1, <1>2, <1>3, <1>4, <1>5, <1>6 DEF Next, Handler, Quiet

\* What the limiter lets pass in a window never exceeds the limit.
LEMMA AdmittedStep ==
    ASSUME TypeOK, CountsAttempts, WindowsUsed, AdmittedWithin, [Next]_vars
    PROVE  AdmittedWithin'
<1> USE DEF Limiting, Ended
<1>0. window \in Nat /\ window' \in Nat /\ Limit \in Nat /\ hits \in Nat
  BY AttemptsFinite, CountsStep, LoginAssumption DEF TypeOK
<1>a. \A w : Admitted(w) \in SUBSET Attempts /\ CountedIn(w)' \in SUBSET Attempts
  BY DEF Admitted, CountedIn
\* A step that admits nobody new.
<1>b. ASSUME window' = window,
             \A w \in 0 .. window : Admitted(w)' \subseteq Admitted(w)
      PROVE  AdmittedWithin'
  <2>1. \A w \in 0 .. window : Cardinality(Admitted(w)) \in Nat
                               /\ Cardinality(Admitted(w)') \in Nat
                               /\ Cardinality(Admitted(w)') <= Cardinality(Admitted(w))
    BY <1>a, <1>b, AttemptsFinite
  <2> QED BY <1>0, <1>b, <2>1 DEF AdmittedWithin
<1>1. ASSUME NEW a \in Attempts, Incr(a) PROVE AdmittedWithin'
  <2>1. /\ within' = [within EXCEPT ![a] = window]
        /\ rank' = [rank EXCEPT ![a] = hits + 1] /\ window' = window
        /\ Cardinality(CountedIn(window)') = hits + 1
        /\ pc' \in {[pc EXCEPT ![a] = l] : l \in {"expire", "ttl"}}
        /\ within[a] = -1 /\ blind' = blind
    BY <1>1, CountedOnce DEF Incr, Counted, Goto, TypeOK, CountsAttempts
  <2>2. ASSUME NEW w \in 0 .. window, w # window \/ ~(hits + 1 <= Limit)
        PROVE  Admitted(w)' \subseteq Admitted(w)
    BY <1>0, <2>1, <2>2 DEF Admitted, CountedIn, Passed, TypeOK
  <2>3. CASE hits + 1 <= Limit
    <3>1. Admitted(window)' \subseteq CountedIn(window)'
      BY DEF Admitted
    <3>2. Cardinality(Admitted(window)') <= Limit
      BY <1>0, <1>a, <2>1, <2>3, <3>1, AttemptsFinite
    <3>3. \A w \in 0 .. window : w # window => Cardinality(Admitted(w)') <= Limit
      BY <1>0, <1>a, <2>2, AttemptsFinite DEF AdmittedWithin
    <3> QED BY <2>1, <3>2, <3>3 DEF AdmittedWithin
  <2>4. CASE ~(hits + 1 <= Limit)
    BY <1>b, <2>1, <2>2, <2>4
  <2> QED BY <2>3, <2>4
<1>2. ASSUME NEW a \in Attempts, Bypass(a) PROVE AdmittedWithin'
  <2>1. /\ window' = window /\ blind' = blind \cup {a}
        /\ \A b \in Attempts :
              b # a => within'[b] = within[b] /\ rank'[b] = rank[b] /\ pc'[b] = pc[b]
    BY <1>2 DEF TypeOK, Bypass, Counted, Goto, counter
  <2>2. \A w \in 0 .. window : Admitted(w)' \subseteq Admitted(w)
    BY <2>1 DEF Admitted, CountedIn, Passed
  <2> QED BY <1>b, <2>1, <2>2
<1>3. ASSUME NEW a \in Attempts,
             \/ Expire(a) \/ Ttl(a) \/ CheckPassword(a) \/ SetSession(a)
             \/ LoginFails(a) \/ Verify(a) \/ HasSession(a) \/ Crash(a)
             \/ TokenExpires(a) \/ SessionExpires(a)
      PROVE  AdmittedWithin'
  <2>1. UNCHANGED <<window, within, blind>>
    BY <1>3
    DEF Expire, Ttl, CheckPassword, SetSession, LoginFails, Verify, HasSession,
        Crash, TokenExpires, SessionExpires, limiter, counter
  <2>2. \A b \in Attempts :
            /\ b \in Passed' =>
                  b \in Passed \/ (pc[b] \in {"expire", "ttl"} /\ rank[b] <= Limit)
            /\ pc'[b] \in {"expire", "ttl"} =>
                  pc[b] \in {"expire", "ttl"} /\ rank'[b] = rank[b]
    BY <1>3
    DEF TypeOK, Passed, Expire, Ttl, CheckPassword, SetSession, LoginFails,
        Verify, HasSession, Crash, TokenExpires, SessionExpires, Goto,
        WithinLimit, SessionError, limiter
  <2>3. \A w \in 0 .. window : Admitted(w)' \subseteq Admitted(w)
    BY <2>1, <2>2 DEF Admitted, CountedIn
  <2> QED BY <1>b, <2>1, <2>3
<1>4. ASSUME WindowEnds PROVE AdmittedWithin'
  <2>1. /\ window' = window + 1 /\ UNCHANGED <<within, rank, pc, blind>>
    BY <1>4 DEF WindowEnds
  <2>2. \A w : Admitted(w)' = Admitted(w)
    BY <2>1 DEF Admitted, CountedIn, Passed
  <2>3. Admitted(window + 1) = {}
    BY <1>0 DEF Admitted, CountedIn, TypeOK
  <2>4. \A w \in 0 .. window' : Cardinality(Admitted(w)) <= Limit
    BY <1>0, <2>1, <2>3, FS_EmptySet DEF AdmittedWithin
  <2> QED BY <2>2, <2>4 DEF AdmittedWithin
<1>5. CASE UNCHANGED vars
  BY <1>5, <1>b DEF vars, Admitted, CountedIn, Passed
<1> QED
  BY <1>1, <1>2, <1>3, <1>4, <1>5 DEF Next, Handler, Quiet

LEMMA LimiterInit == Init => LimiterInv
<1> SUFFICES ASSUME Init PROVE LimiterInv
  OBVIOUS
<1> USE DEF Init, Limiting
<1>0. Cardinality(Attempts) \in Nat /\ Limit \in Nat
  BY AttemptsFinite, LoginAssumption
<1>1. TypeOK
  <2>1. ~leased /\ orphaned \in BOOLEAN
    OBVIOUS
  <2>2. /\ within \in [Attempts -> -1 .. window]
        /\ rank \in [Attempts -> 0 .. Cardinality(Attempts)]
    BY <1>0
  <2> QED BY <1>0, <2>1, <2>2 DEF TypeOK
<1>2. /\ CountedIn(0) = {} /\ Earlier = {}
      /\ \A w \in 0 .. 0 : Admitted(w) = {}
  BY DEF CountedIn, Earlier, Admitted
<1>3. CountsAttempts /\ WindowsUsed /\ AdmittedWithin
  BY <1>0, <1>2, FS_EmptySet DEF CountsAttempts, WindowsUsed, AdmittedWithin
<1>4. OneOpener /\ Ranked /\ RefusedBeyond
  BY DEF OneOpener, Ranked, RefusedBeyond
<1> QED BY <1>1, <1>3, <1>4 DEF LimiterInv

LEMMA LimiterInvariant == Spec => []LimiterInv
<1>1. LimiterInv /\ [Next]_vars => LimiterInv'
  BY CounterStep, CountsStep, RankStep, AdmittedStep DEF LimiterInv
<1> QED BY <1>1, LimiterInit, PTL DEF Spec

\* The counter and its TTL, the windows, the sessions and the tokens keep
\* their types; a counter without a TTL has one attempt that will set it.
THEOREM LoginTypeCorrect == Spec => []TypeOK
<1>1. LimiterInv => TypeOK
  BY DEF LimiterInv
<1> QED BY <1>1, LimiterInvariant, PTL

\* The limiter admits no more attempts of a window than its limit, and
\* refuses none of a window that has not had its fill.
THEOREM LimiterIsExact == Spec => []LimitIsExact
<1>1. ASSUME LimiterInv PROVE LimitIsExact
  <2>1. ASSUME NEW w \in 0 .. window
        PROVE  Cardinality((Passed \cap CountedIn(w)) \ blind) <= Limit
    <3>1. /\ (Passed \cap CountedIn(w)) \ blind \subseteq Admitted(w)
          /\ Admitted(w) \in SUBSET Attempts
          /\ (Passed \cap CountedIn(w)) \ blind \in SUBSET Attempts
      BY DEF Admitted, CountedIn
    <3>2. Cardinality(Admitted(w)) <= Limit
      BY <1>1 DEF LimiterInv, AdmittedWithin
    <3> QED BY <3>1, <3>2, AttemptsFinite, LoginAssumption
  <2> QED BY <1>1, <2>1 DEF LimiterInv, RefusedBeyond, LimitIsExact
<1> QED BY <1>1, LimiterInvariant, PTL

LEMMA StoredStep ==
    ASSUME TypeOK, StoredBeforeUse, TokensHonoured, [Next]_vars
    PROVE  StoredBeforeUse' /\ TokensHonoured'
<1>1. ASSUME NEW a \in Attempts, Incr(a) PROVE StoredBeforeUse' /\ TokensHonoured'
  BY <1>1
  DEF StoredBeforeUse, TokensHonoured, TypeOK, Incr, Goto, Counted, OpensWindow, login
<1>2. ASSUME NEW a \in Attempts, Expire(a) PROVE StoredBeforeUse' /\ TokensHonoured'
  BY <1>2
  DEF StoredBeforeUse, TokensHonoured, TypeOK, Expire, Goto, Leased, login
<1>3. ASSUME NEW a \in Attempts, Ttl(a) PROVE StoredBeforeUse' /\ TokensHonoured'
  BY <1>3
  DEF StoredBeforeUse, TokensHonoured, TypeOK, Ttl, Goto, WithinLimit, counter, login
<1>4. ASSUME NEW a \in Attempts, Bypass(a) PROVE StoredBeforeUse' /\ TokensHonoured'
  BY <1>4
  DEF StoredBeforeUse, TokensHonoured, TypeOK, Bypass, Goto, Counted, Leased, counter, login
<1>5. ASSUME NEW a \in Attempts, CheckPassword(a) PROVE StoredBeforeUse' /\ TokensHonoured'
  BY <1>5
  DEF StoredBeforeUse, TokensHonoured, TypeOK, CheckPassword, Goto, limiter, counter
<1>6. ASSUME NEW a \in Attempts, SetSession(a) PROVE StoredBeforeUse' /\ TokensHonoured'
  BY <1>6
  DEF StoredBeforeUse, TokensHonoured, TypeOK, SetSession, Goto, limiter, counter
<1>7. ASSUME NEW a \in Attempts, LoginFails(a) PROVE StoredBeforeUse' /\ TokensHonoured'
  BY <1>7
  DEF StoredBeforeUse, TokensHonoured, TypeOK, LoginFails, Goto, SessionError, limiter, counter
<1>8. ASSUME NEW a \in Attempts, Verify(a) PROVE StoredBeforeUse' /\ TokensHonoured'
  BY <1>8
  DEF StoredBeforeUse, TokensHonoured, TypeOK, Verify, Goto, limiter, counter, login
<1>9. ASSUME NEW a \in Attempts, HasSession(a) PROVE StoredBeforeUse' /\ TokensHonoured'
  BY <1>9
  DEF StoredBeforeUse, TokensHonoured, TypeOK, HasSession, Goto, limiter, counter, login
<1>10. ASSUME NEW a \in Attempts, Crash(a) PROVE StoredBeforeUse' /\ TokensHonoured'
  BY <1>10
  DEF StoredBeforeUse, TokensHonoured, TypeOK, Crash, Goto, counter, login
<1>11. ASSUME NEW a \in Attempts, TokenExpires(a) PROVE StoredBeforeUse' /\ TokensHonoured'
  BY <1>11
  DEF StoredBeforeUse, TokensHonoured, TypeOK, TokenExpires, limiter, counter
<1>12. ASSUME NEW a \in Attempts, SessionExpires(a) PROVE StoredBeforeUse' /\ TokensHonoured'
  BY <1>12
  DEF StoredBeforeUse, TokensHonoured, TypeOK, SessionExpires, limiter, counter
<1>13. ASSUME WindowEnds PROVE StoredBeforeUse' /\ TokensHonoured'
  BY <1>13
  DEF StoredBeforeUse, TokensHonoured, TypeOK, WindowEnds, login
<1>14. CASE UNCHANGED vars
  BY <1>14 DEF StoredBeforeUse, TokensHonoured, TypeOK, vars, counter
<1> QED
  BY <1>1, <1>2, <1>3, <1>4, <1>5, <1>6, <1>7, <1>8, <1>9, <1>10, <1>11,
     <1>12, <1>13, <1>14
  DEF Next, Handler, Quiet

\* A token that was handed out is turned away only once it has expired: its
\* session was stored before, and outlives it.
THEOREM TokensAreHonoured == Spec => []TokensHonoured
<1>1. Init => StoredBeforeUse /\ TokensHonoured
  BY DEF Init, StoredBeforeUse, TokensHonoured
<1>2. TypeOK /\ StoredBeforeUse /\ TokensHonoured /\ [Next]_vars =>
          (StoredBeforeUse /\ TokensHonoured)'
  BY StoredStep
<1> QED BY <1>1, <1>2, LoginTypeCorrect, PTL DEF Spec
=============================================================================
