------------------------------ MODULE StaffLogin ------------------------------
(***************************************************************************)
(* POST /auth/login and the use of the token it hands out: the rate        *)
(* limiter, AuthService.login and the middleware authenticate.             *)
(*                                                                         *)
(* All attempts come from one address, so that they share one counter,     *)
(* rl:login:{ip}.  An attempt is also the device it logs in, and its       *)
(* session is session:staff:{id}:{device}.  `pc` names the await that an   *)
(* attempt issues next, or its answer.  The query of the staff member and  *)
(* the comparison of the password, which touch nothing shared, are one     *)
(* step.                                                                   *)
(***************************************************************************)
EXTENDS Integers, FiniteSets

CONSTANTS
    Attempts,   \* the login attempts of one address
    Entitled,   \* the attempts with the password of a staff member
    Limit,      \* attempts per window: `max`
    Failures    \* whether Redis, the database and the process may fail

ASSUME LoginAssumption ==
    /\ IsFiniteSet(Attempts)
    /\ Entitled \subseteq Attempts
    /\ Limit \in Nat \ {0}
    /\ Failures \in BOOLEAN

VARIABLES
    hits,       \* the counter; 0 is a key that does not exist
    leased,     \* whether the counter has a TTL
    window,     \* history: the windows that have ended
    within,     \* history: the window in which an attempt was counted, or -1
    rank,       \* what INCR returned to each attempt, until it is judged
    pc,         \* the next await of each attempt, or its answer
    sessions,   \* the attempts whose session exists
    token,      \* the access token of each attempt
    blind,      \* history: the attempts that the limiter let pass on an error
    orphaned    \* history: the EXPIRE of a counter was lost

vars == <<hits, leased, window, within, rank, pc, sessions, token, blind,
          orphaned>>

counter == <<hits, leased, window>>
limiter == <<counter, within, rank, blind, orphaned>>
login == <<sessions, token>>

\* 429; 400 or 401; 500; the process died; 401 for a token.
Ended == {"refused", "rejected", "failed", "dead", "out"}

Init ==
    /\ hits = 0
    /\ leased = FALSE
    /\ window = 0
    /\ within = [a \in Attempts |-> -1]
    /\ rank = [a \in Attempts |-> 0]
    /\ pc = [a \in Attempts |-> "incr"]
    /\ sessions = {}
    /\ token = [a \in Attempts |-> "none"]
    /\ blind = {}
    /\ orphaned = FALSE
-----------------------------------------------------------------------------
Goto(a, label) == pc' = [pc EXCEPT ![a] = label]

\* The attempt that fills the window, instead of the one that opens it.
FillsWindow(n) == n = Limit

\* The attempt that opens a window gives the counter its TTL.
OpensWindow(n) == n = 1

BelowLimit(n) == n < Limit

WithinLimit(n) == n <= Limit

Counted(a) ==
    /\ hits' = hits + 1
    /\ within' = [within EXCEPT ![a] = window]
    /\ UNCHANGED <<leased, window>>

Incr(a) ==
    /\ pc[a] = "incr"
    /\ Counted(a)
    /\ rank' = [rank EXCEPT ![a] = hits + 1]
    /\ Goto(a, IF OpensWindow(hits + 1) THEN "expire" ELSE "ttl")
    /\ UNCHANGED <<blind, orphaned>>
    /\ UNCHANGED login

\* EXPIRE of a key that has gone does nothing.
Leased == leased' = (hits > 0)

Expire(a) ==
    /\ pc[a] = "expire"
    /\ Leased
    /\ Goto(a, "ttl")
    /\ UNCHANGED <<hits, window, within, rank, blind, orphaned>>
    /\ UNCHANGED login

\* The TTL read here only goes into headers; then next(), with 429 or not.
Ttl(a) ==
    /\ pc[a] = "ttl"
    /\ Goto(a, IF WithinLimit(rank[a]) THEN "find" ELSE "refused")
    /\ rank' = [rank EXCEPT ![a] = 0]
    /\ UNCHANGED <<counter, within, blind, orphaned>>
    /\ UNCHANGED login

\* A client that is not open, or an error of one of the commands, which may
\* have been applied: the attempt passes.
Bypass(a) ==
    /\ Failures
    /\ \/ /\ pc[a] \in {"incr", "expire", "ttl"}
          /\ orphaned' = (orphaned \/ pc[a] = "expire")
          /\ UNCHANGED <<counter, within>>
       \/ /\ pc[a] = "incr"
          /\ Counted(a)
          /\ orphaned' = (orphaned \/ OpensWindow(hits + 1))
       \/ /\ pc[a] = "expire"
          /\ Leased
          /\ UNCHANGED <<hits, window, within, orphaned>>
    /\ blind' = blind \cup {a}
    /\ Goto(a, "find")
    /\ rank' = [rank EXCEPT ![a] = 0]
    /\ UNCHANGED login

(***************************************************************************)
(* AuthService.login: a body that is not valid, an unknown address or a    *)
(* wrong password is rejected.  The tokens are signed before the session   *)
(* is stored, and handed out after that.                                   *)
(***************************************************************************)
CheckPassword(a) ==
    /\ pc[a] = "find"
    /\ \/ a \notin Entitled /\ Goto(a, "rejected") /\ UNCHANGED token
       \/ /\ a \in Entitled
          /\ Goto(a, "session")
          /\ token' = [token EXCEPT ![a] = "valid"]
    /\ UNCHANGED <<limiter, sessions>>

SetSession(a) ==
    /\ pc[a] = "session"
    /\ sessions' = sessions \cup {a}
    /\ Goto(a, "holding")
    /\ UNCHANGED <<limiter, token>>

AnsweredAllTheSame == "holding"

\* The catch block around setSession.
SessionError == "failed"

LoginFails(a) ==
    /\ Failures
    /\ \/ pc[a] = "find" /\ Goto(a, "failed") /\ UNCHANGED sessions
       \/ pc[a] = "session" /\ Goto(a, SessionError)
          /\ sessions' \in {sessions, sessions \cup {a}}
    /\ UNCHANGED <<limiter, token>>

\* authenticate: jwt.verify, then EXISTS of the session.
Verify(a) ==
    /\ pc[a] = "holding"
    /\ Goto(a, IF token[a] = "valid" THEN "exists" ELSE "out")
    /\ UNCHANGED limiter
    /\ UNCHANGED login

HasSession(a) ==
    /\ pc[a] = "exists"
    /\ \/ Goto(a, IF a \in sessions THEN "holding" ELSE "out")
       \/ Failures /\ Goto(a, "holding")     \* a Redis error is a 500
    /\ UNCHANGED limiter
    /\ UNCHANGED login

\* The process that handles the login dies.
Crash(a) ==
    /\ Failures
    /\ pc[a] \in {"expire", "ttl", "find", "session"}
    /\ orphaned' = (orphaned \/ pc[a] = "expire")
    /\ Goto(a, "dead")
    /\ UNCHANGED <<counter, within, rank, blind>>
    /\ UNCHANGED login
-----------------------------------------------------------------------------
\* The 15 minutes of the window are over.
WindowEnds ==
    /\ leased
    /\ hits' = 0
    /\ leased' = FALSE
    /\ window' = window + 1
    /\ UNCHANGED <<within, rank, pc, blind, orphaned>>
    /\ UNCHANGED login

\* An access token lives for an hour.
TokenExpires(a) ==
    /\ token[a] = "valid"
    /\ token' = [token EXCEPT ![a] = "expired"]
    /\ UNCHANGED <<limiter, pc, sessions>>

\* A session lives for 7 days from a moment after the token was signed.
SessionExpires(a) ==
    /\ a \in sessions
    /\ token[a] = "expired"
    /\ sessions' = sessions \ {a}
    /\ UNCHANGED <<limiter, pc, token>>

Handler(a) ==
    \/ Incr(a) \/ Expire(a) \/ Ttl(a) \/ Bypass(a)
    \/ CheckPassword(a) \/ SetSession(a) \/ LoginFails(a)

Quiet == (\A a \in Attempts : pc[a] \in Ended) /\ UNCHANGED vars

Next ==
    \/ \E a \in Attempts :
          \/ Handler(a) \/ Crash(a)
          \/ Verify(a) \/ HasSession(a) \/ TokenExpires(a) \/ SessionExpires(a)
    \/ WindowEnds
    \/ Quiet

Spec == Init /\ [][Next]_vars

\* Node runs a handler whose await has settled, and Redis expires keys.
FairSpec ==
    /\ Spec
    /\ \A a \in Attempts : WF_vars(Handler(a))
    /\ WF_vars(WindowEnds)
-----------------------------------------------------------------------------
Limiting == {"incr", "expire", "ttl"}

TypeOK ==
    /\ hits \in 0 .. Cardinality(Attempts)
    /\ leased => hits > 0
    /\ window \in 0 .. Cardinality(Attempts)
    /\ within \in [Attempts -> -1 .. window]
    /\ rank \in [Attempts -> 0 .. Cardinality(Attempts)]
    /\ \A a \in Attempts : pc[a] = "expire" => rank[a] = 1 /\ ~leased
    /\ pc \in [Attempts -> Limiting \cup {"find", "session", "holding", "exists"}
                             \cup Ended]
    /\ sessions \subseteq Attempts
    /\ token \in [Attempts -> {"none", "valid", "expired"}]
    /\ blind \subseteq Attempts
    /\ orphaned \in BOOLEAN

CountedIn(w) == {a \in Attempts : within[a] = w}

Passed == {a \in Attempts : pc[a] \notin Limiting \cup {"refused", "dead"}}

\* No more attempts of a window than the limit reach the password check,
\* other than those that a Redis error lets pass, and none is refused in a
\* window that has not had its fill, however INCR, EXPIRE, the end of the
\* window and the deaths of processes interleave.
LimitIsExact ==
    /\ \A w \in 0 .. window : Cardinality((Passed \cap CountedIn(w)) \ blind) <= Limit
    /\ \A a \in Attempts :
          pc[a] = "refused" => Cardinality(CountedIn(within[a])) > Limit

\* An address is locked out for a time only: its counter goes away, unless
\* the one EXPIRE of the window was lost with its process or on an error.
LockoutEnds == hits > 0 ~> hits = 0 \/ orphaned

\* A token that was handed out is good until it expires: its session has been
\* stored before, and outlives it.
TokensHonoured == \A a \in Attempts : pc[a] = "out" => token[a] = "expired"
=============================================================================
