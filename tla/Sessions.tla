------------------------------ MODULE Sessions ------------------------------
(***************************************************************************)
(* Login, authentication and logout over the tables users and sessions,    *)
(* with the worker's removal of expired sessions.                          *)
(*                                                                         *)
(* Each SELECT, INSERT and UPDATE is an action; requests and the worker    *)
(* run between any two.  A token stands for the session it was issued      *)
(* with.  Every route but login authenticates first, logout included.  The *)
(* clock is read together with the SELECT that comes before it.            *)
(***************************************************************************)
EXTENDS Integers

CONSTANTS
    User,
    Seeded,       \* users of migration 002, whose created_at is CURRENT_TIMESTAMP
    SessionId,    \* session ids, each with its token, in the order of no one
    Handler,      \* requests in flight at a time
    TTL,          \* Config.SessionTTL
    Keep,         \* how long a revoked session is kept: 24 hours
    None,         \* no user, no session
    MaxTime       \* bound: the clock stops here

ASSUME SessionsAssumption ==
    /\ Seeded \subseteq User
    /\ TTL \in Nat \ {0} /\ Keep \in Nat \ {0} /\ MaxTime \in Nat
    /\ None \notin User \cup SessionId

VARIABLES
    active,      \* users.active, by user
    sessions,    \* table sessions, by id
    issued,      \* ids that were generated
    now,         \* the clock
    rq           \* local variables of the request handlers

vars == <<active, sessions, issued, now, rq>>

Never == -1                                          \* revoked_at IS NULL
SessionRow == [user: User \cup {None}, expires: Nat, revoked: Nat \cup {Never}, seen: Nat]
NoSession == [user |-> None, expires |-> 0, revoked |-> Never, seen |-> 0]

\* A request: what it does, the statement it runs next, its user or session, the time it
\* read last, and the reply.
RequestRow ==
    [op: {"none", "login", "use", "logout"},
     pc: {"idle", "create", "user", "touch", "find", "revoke", "done"},
     user: User \cup {None}, session: SessionId \cup {None}, at: Nat, right: BOOLEAN,
     result: {"none", "ok", "unauthorized", "expired", "forbidden", "error"}]
Idle == [op |-> "none", pc |-> "idle", user |-> None, session |-> None, at |-> 0,
         right |-> FALSE, result |-> "none"]

Init ==
    /\ active = [u \in User |-> TRUE]
    /\ sessions = [s \in SessionId |-> NoSession]
    /\ issued = {}
    /\ now = 0
    /\ rq = [h \in Handler |-> Idle]

-----------------------------------------------------------------------------
Exists(s) == sessions[s].user # None

\* Mutants: a session outlives its last instant; a filter forgets revoked_at; the removal has
\* one half of its WHERE clause; a session starts in the past.
ActiveAtExpiry(row, t) == row.revoked = Never /\ t <= row.expires
AnyRow(s) == Exists(s)
RemovableIfRevoked(s) ==
    Exists(s) /\ sessions[s].revoked # Never /\ sessions[s].revoked <= now - Keep
RemovableIfExpired(s) == Exists(s) /\ sessions[s].expires <= now
ExpiredSession(u, t) == [user |-> u, expires |-> t - TTL, revoked |-> Never, seen |-> t]

\* Session.Active
Active(row, t) == row.revoked = Never /\ t < row.expires
\* WHERE id=? AND revoked_at IS NULL
Unrevoked(s) == Exists(s) /\ sessions[s].revoked = Never
\* WHERE expires_at<=? OR (revoked_at IS NOT NULL AND revoked_at<=?)
Removable(s) ==
    /\ Exists(s)
    /\ \/ sessions[s].expires <= now
       \/ sessions[s].revoked # Never /\ sessions[s].revoked <= now - Keep

NewSession(u, t) == [user |-> u, expires |-> t + TTL, revoked |-> Never, seen |-> t]
Revoked(row, t) == [row EXCEPT !.revoked = t]
\* parseTime takes RFC3339 only, and scanUser fails with it.
Readable(u) == u \notin Seeded

Goes(h, request, pc) == rq' = [rq EXCEPT ![h] = [request EXCEPT !.pc = pc, !.at = now]]
Reply(h, request, result) ==
    rq' = [rq EXCEPT ![h] = [request EXCEPT !.pc = "done", !.result = result]]

-----------------------------------------------------------------------------
(* auth.Service.Login                                                      *)

LoginFindUser(h, u, right) ==
    LET request == [Idle EXCEPT !.op = "login", !.user = u, !.right = right]
    IN  /\ rq[h].pc = "idle"
        /\ \/ ~Readable(u) /\ Reply(h, request, "error")
           \/ Readable(u) /\ ~(active[u] /\ right) /\ Reply(h, request, "unauthorized")
           \/ Readable(u) /\ active[u] /\ right /\ Goes(h, request, "create")
        /\ UNCHANGED <<active, sessions, issued, now>>

LoginCreateSession(h) ==
    /\ rq[h].pc = "create"
    /\ \E s \in SessionId \ issued :
          /\ sessions' = [sessions EXCEPT ![s] = NewSession(rq[h].user, rq[h].at)]
          /\ issued' = issued \cup {s}
          /\ Reply(h, [rq[h] EXCEPT !.session = s], "ok")
    /\ UNCHANGED <<active, now>>

-----------------------------------------------------------------------------
(* auth.Service.Authenticate, then Logout for one of the routes            *)

FindSessionByTokenHash(h, op, s) ==
    LET request == [Idle EXCEPT !.op = op, !.session = s]
    IN  /\ rq[h].pc = "idle"
        /\ s \in issued
        /\ \/ ~Exists(s) /\ Reply(h, request, "unauthorized")
           \/ /\ Exists(s) /\ ~Active(sessions[s], now)
              /\ Reply(h, request,
                       IF sessions[s].expires <= now THEN "expired" ELSE "unauthorized")
           \/ /\ Exists(s) /\ Active(sessions[s], now)
              /\ Goes(h, [request EXCEPT !.user = sessions[s].user], "user")
        /\ UNCHANGED <<active, sessions, issued, now>>

\* The user was readable at login, and no statement deletes users.
FindUserByID(h) ==
    /\ rq[h].pc = "user"
    /\ \/ ~active[rq[h].user] /\ Reply(h, rq[h], "forbidden")
       \/ active[rq[h].user] /\ rq' = [rq EXCEPT ![h].pc = "touch"]
    /\ UNCHANGED <<active, sessions, issued, now>>

TouchSession(h) ==
    LET s == rq[h].session
    IN  /\ rq[h].pc = "touch"
        /\ \/ /\ Unrevoked(s)
              /\ sessions' = [sessions EXCEPT ![s].seen = rq[h].at]
              /\ \/ rq[h].op = "use" /\ Reply(h, rq[h], "ok")
                 \/ rq[h].op = "logout" /\ rq' = [rq EXCEPT ![h].pc = "find"]
           \/ /\ ~Unrevoked(s)
              /\ Reply(h, rq[h], "unauthorized")
              /\ UNCHANGED sessions
        /\ UNCHANGED <<active, issued, now>>

LogoutFindSession(h) ==
    /\ rq[h].pc = "find"
    /\ \/ ~Unrevoked(rq[h].session) /\ Reply(h, rq[h], "ok")
       \/ Unrevoked(rq[h].session) /\ Goes(h, rq[h], "revoke")
    /\ UNCHANGED <<active, sessions, issued, now>>

RevokeSession(h) ==
    LET s == rq[h].session
    IN  /\ rq[h].pc = "revoke"
        /\ \/ /\ Unrevoked(s)
              /\ sessions' = [sessions EXCEPT ![s] = Revoked(@, rq[h].at)]
           \/ ~Unrevoked(s) /\ UNCHANGED sessions
        /\ Reply(h, rq[h], "ok")
        /\ UNCHANGED <<active, issued, now>>

EndRequest(h) ==
    /\ rq[h].pc = "done"
    /\ rq' = [rq EXCEPT ![h] = Idle]
    /\ UNCHANGED <<active, sessions, issued, now>>

-----------------------------------------------------------------------------
\* Service.RemoveExpired, in every tick of the worker.
DeleteExpiredSessions ==
    /\ \E s \in SessionId : Removable(s)
    /\ sessions' = [s \in SessionId |-> IF Removable(s) THEN NoSession ELSE sessions[s]]
    /\ UNCHANGED <<active, issued, now, rq>>

\* Somebody switches an account off in the table: no service of the program does.
Deactivate(u) ==
    /\ active[u]
    /\ active' = [active EXCEPT ![u] = FALSE]
    /\ UNCHANGED <<sessions, issued, now, rq>>

AdvanceClock == now < MaxTime /\ now' = now + 1 /\ UNCHANGED <<active, sessions, issued, rq>>

HandlerStep(h) ==
    \/ \E u \in User, right \in BOOLEAN : LoginFindUser(h, u, right)
    \/ LoginCreateSession(h)
    \/ \E op \in {"use", "logout"}, s \in SessionId : FindSessionByTokenHash(h, op, s)
    \/ FindUserByID(h)
    \/ TouchSession(h)
    \/ LogoutFindSession(h)
    \/ RevokeSession(h)
    \/ EndRequest(h)

Next ==
    \/ \E h \in Handler : HandlerStep(h)
    \/ DeleteExpiredSessions
    \/ \E u \in User : Deactivate(u)
    \/ AdvanceClock

Spec == Init /\ [][Next]_vars

\* The worker ticks for as long as the process runs.
FairSpec == Spec /\ WF_vars(DeleteExpiredSessions)

\* Every variable holds a value of the table or local variable it stands for.
TypeOK ==
    /\ active \in [User -> BOOLEAN]
    /\ sessions \in [SessionId -> SessionRow]
    /\ issued \subseteq SessionId
    /\ now \in Nat
    /\ rq \in [Handler -> RequestRow]
=============================================================================
