--------------------------- MODULE SessionsProofs ---------------------------
(***************************************************************************)
(* Proofs about Sessions, for any users, sessions, requests, lifetimes and *)
(* clock bounds.                                                           *)
(***************************************************************************)
EXTENDS SessionsProperties, TLAPS

\* What a request knows about its session: that the id was generated, and, past the check
\* of the expiry, that the time it read is before the expiry of a session that still exists.
Knows(h) ==
    /\ rq[h].op \in {"use", "logout"} => rq[h].session \in issued
    /\ rq[h].pc \in {"user", "touch"} =>
          /\ rq[h].op \in {"use", "logout"}
          /\ Exists(rq[h].session) => rq[h].at < sessions[rq[h].session].expires
    /\ rq[h].pc \in {"find", "revoke"} => rq[h].op = "logout"
    /\ rq[h].pc = "create" => rq[h].user \in User /\ rq[h].op = "login"

\* Rows have ids that were generated, and the table holds nothing of the others.
IssuedRows == \A s \in SessionId : IF Exists(s) THEN s \in issued ELSE sessions[s] = NoSession

Inv == TypeOK /\ IssuedRows /\ SeenBeforeExpiry /\ LogoutHolds /\ \A h \in Handler : Knows(h)

\* A session that is not there is a row of the type.
LEMMA NoSessionType ==
    NoSession \in SessionRow /\ NoSession.user = None /\ NoSession.revoked = Never
  BY DEF NoSession, SessionRow, Never

LEMMA InitInv == Init => Inv
<1> SUFFICES ASSUME Init PROVE Inv
  OBVIOUS
<1>1. Idle \in RequestRow
  BY DEF Idle, RequestRow
<1>2. TypeOK
  BY <1>1, NoSessionType DEF Init, TypeOK
<1>3. IssuedRows /\ SeenBeforeExpiry
  BY NoSessionType DEF Init, IssuedRows, SeenBeforeExpiry, Exists
<1>4. LogoutHolds /\ \A h \in Handler : Knows(h)
  BY DEF Init, LogoutHolds, Knows, Idle
<1>5. QED
  BY <1>2, <1>3, <1>4 DEF Inv

\* What a step may do to the session s: it stays gone or goes, it keeps its user, expiry and
\* revocation, or it appears under an id that was not generated before.
RowKept(s) ==
    \/ sessions'[s] = NoSession
    \/ /\ Exists(s) /\ sessions'[s].expires = sessions[s].expires
       /\ sessions'[s].user # None
       /\ sessions'[s].seen < sessions'[s].expires
       /\ sessions[s].revoked # Never => sessions'[s].revoked = sessions[s].revoked
    \/ /\ s \in issued' \ issued
       /\ sessions'[s].user # None
       /\ sessions'[s].seen < sessions'[s].expires
RowsKept ==
    /\ sessions' \in [SessionId -> SessionRow] /\ issued' \subseteq SessionId
    /\ issued \subseteq issued'
    /\ \A s \in SessionId : RowKept(s)

\* What RowsKept leaves of the invariant for the requests that do not move.
LEMMA RowsKeptKeeps ==
    ASSUME Inv, RowsKept
    PROVE  /\ IssuedRows' /\ SeenBeforeExpiry'
           /\ \A s \in issued : /\ Exists(s)' => /\ Exists(s)
                                                 /\ sessions'[s].expires = sessions[s].expires
                                /\ sessions[s].revoked # Never \/ ~Exists(s)
                                   => sessions'[s].revoked # Never \/ ~Exists(s)'
           /\ \A h \in Handler : rq'[h] = rq[h] => Knows(h)'
<1>1. IssuedRows'
  BY NoSessionType DEF Inv, RowsKept, RowKept, IssuedRows, Exists
<1>2. SeenBeforeExpiry'
  BY NoSessionType DEF Inv, RowsKept, RowKept, SeenBeforeExpiry, Exists
<1>3. ASSUME NEW s \in issued
      PROVE  /\ Exists(s)' => Exists(s) /\ sessions'[s].expires = sessions[s].expires
             /\ sessions[s].revoked # Never \/ ~Exists(s)
                => sessions'[s].revoked # Never \/ ~Exists(s)'
  <2>1. s \in SessionId /\ RowKept(s)
    BY DEF Inv, TypeOK, RowsKept
  <2>2. QED
    BY <2>1, NoSessionType DEF RowKept, Exists
<1>4. ASSUME NEW h \in Handler, rq'[h] = rq[h] PROVE Knows(h)'
  <2>1. Knows(h) /\ issued \subseteq issued'
    BY DEF Inv, RowsKept
  <2>2. CASE rq[h].pc \in {"user", "touch"}
    <3>1. PICK s \in issued : s = rq[h].session
      BY <2>1, <2>2 DEF Knows
    <3>2. Exists(s)' => s = rq[h].session /\ rq[h].at < sessions'[s].expires
      BY <1>3, <2>1, <2>2, <3>1 DEF Knows, Exists
    <3>3. QED
      BY <1>4, <2>1, <2>2, <3>1, <3>2 DEF Knows, Exists
  <2>3. CASE rq[h].pc \notin {"user", "touch"}
    BY <1>4, <2>1, <2>3 DEF Knows
  <2>4. QED
    BY <2>2, <2>3
<1>5. QED
  BY <1>1, <1>2, <1>3, <1>4

\* A step that moves at most the request h, to "next", and keeps the rows.
LEMMA OneRequestMoves ==
    ASSUME Inv, RowsKept, NEW h \in Handler, NEW next \in RequestRow,
           rq' = [rq EXCEPT ![h] = next], active' \in [User -> BOOLEAN], now' \in Nat,
           Knows(h)',
           next.op = "logout" /\ next.result = "ok"
              => sessions'[next.session].revoked # Never \/ ~Exists(next.session)'
    PROVE  Inv'
<1>1. /\ rq' \in [Handler -> RequestRow] /\ rq'[h] = next
      /\ \A g \in Handler \ {h} : rq'[g] = rq[g]
  BY DEF Inv, TypeOK
<1>2. TypeOK'
  BY <1>1 DEF TypeOK, RowsKept
<1>3. \A g \in Handler : Knows(g)'
  BY <1>1, RowsKeptKeeps
<1>4. ASSUME NEW g \in Handler, NEW s, s = rq'[g].session,
             rq'[g].op = "logout", rq'[g].result = "ok"
      PROVE  sessions'[s].revoked # Never \/ ~Exists(s)'
  <2>1. CASE g = h
    BY <1>1, <1>4, <2>1 DEF Exists
  <2>2. CASE g # h
    <3>1. rq'[g] = rq[g] /\ s = rq[g].session /\ s \in issued
      BY <1>1, <1>4, <2>2 DEF Inv, Knows
    <3>2. sessions[s].revoked # Never \/ ~Exists(s)
      BY <1>4, <3>1 DEF Inv, LogoutHolds
    <3>3. QED
      BY <3>1, <3>2, RowsKeptKeeps
  <2>3. QED
    BY <2>1, <2>2
<1>5. LogoutHolds'
  BY <1>4 DEF LogoutHolds, Exists
<1>6. QED
  BY <1>2, <1>3, <1>5, RowsKeptKeeps DEF Inv

\* A step that leaves the rows alone keeps them.
LEMMA SameRows ==
    ASSUME Inv, UNCHANGED <<sessions, issued>>
    PROVE  RowsKept
<1>1. ASSUME NEW s \in SessionId PROVE RowKept(s)
  BY DEF Inv, RowKept, IssuedRows, SeenBeforeExpiry, Exists
<1>2. QED
  BY <1>1 DEF Inv, TypeOK, RowsKept

\* A step that only moves the request h, to "next".
LEMMA OnlyRequestMoves ==
    ASSUME Inv, NEW h \in Handler, NEW next \in RequestRow, rq' = [rq EXCEPT ![h] = next],
           UNCHANGED <<active, sessions, issued, now>>, Knows(h)',
           next.op = "logout" /\ next.result = "ok"
              => sessions[next.session].revoked # Never \/ ~Exists(next.session)
    PROVE  Inv' /\ RowsKept
<1>1. RowsKept
  BY SameRows
<1>2. active' \in [User -> BOOLEAN] /\ now' \in Nat
  BY DEF Inv, TypeOK
<1>3. next.op = "logout" /\ next.result = "ok"
         => sessions'[next.session].revoked # Never \/ ~Exists(next.session)'
  BY DEF Exists
<1>4. QED
  BY <1>1, <1>2, <1>3, OneRequestMoves

LEMMA LoginFindUserKeeps ==
    ASSUME Inv, NEW h \in Handler, NEW u \in User, NEW right \in BOOLEAN,
           LoginFindUser(h, u, right)
    PROVE  Inv' /\ RowsKept
<1>1. PICK next : /\ rq' = [rq EXCEPT ![h] = next] /\ next \in RequestRow
                  /\ next.op = "login" /\ next.user = u
                  /\ next.pc \in {"done", "create"}
  <2>1. ASSUME NEW result \in {"error", "unauthorized"}
        PROVE  LET request == [Idle EXCEPT !.op = "login", !.user = u, !.right = right]
                   next == [request EXCEPT !.pc = "done", !.result = result]
               IN  next \in RequestRow /\ next.op = "login" /\ next.user = u
                   /\ next.pc = "done"
    BY DEF Idle, RequestRow
  <2>2. LET request == [Idle EXCEPT !.op = "login", !.user = u, !.right = right]
            next == [request EXCEPT !.pc = "create", !.at = now]
        IN  next \in RequestRow /\ next.op = "login" /\ next.user = u /\ next.pc = "create"
    BY DEF Idle, RequestRow, Inv, TypeOK
  <2>3. QED
    BY <2>1, <2>2 DEF LoginFindUser, Reply, Goes
<1>2. rq'[h] = next
  BY <1>1 DEF Inv, TypeOK
<1>3. Knows(h)'
  BY <1>1, <1>2 DEF Knows
<1>4. QED
  BY <1>1, <1>3, OnlyRequestMoves DEF LoginFindUser

LEMMA LoginCreateSessionKeeps ==
    ASSUME Inv, NEW h \in Handler, LoginCreateSession(h)
    PROVE  Inv' /\ RowsKept
<1>1. PICK s \in SessionId \ issued :
         /\ sessions' = [sessions EXCEPT ![s] = NewSession(rq[h].user, rq[h].at)]
         /\ issued' = issued \cup {s}
         /\ Reply(h, [rq[h] EXCEPT !.session = s], "ok")
  BY DEF LoginCreateSession
<1>2. rq[h] \in RequestRow /\ rq[h].user \in User /\ rq[h].at \in Nat /\ rq[h].op = "login"
  BY DEF Inv, TypeOK, RequestRow, LoginCreateSession, Knows
<1>3. PICK row : row = NewSession(rq[h].user, rq[h].at)
  OBVIOUS
<1>4. /\ row \in SessionRow /\ row.user # None /\ row.seen < row.expires
  BY <1>2, <1>3, SessionsAssumption DEF NewSession, SessionRow, Never
<1>5. RowsKept
  <2>1. sessions' \in [SessionId -> SessionRow] /\ sessions'[s] = row
    BY <1>1, <1>3, <1>4 DEF Inv, TypeOK
  <2>2. ASSUME NEW r \in SessionId, r # s PROVE RowKept(r)
    BY <1>1, <2>2 DEF Inv, TypeOK, RowKept, IssuedRows, SeenBeforeExpiry, Exists
  <2>3. RowKept(s)
    BY <1>1, <1>4, <2>1 DEF RowKept
  <2>4. QED
    BY <1>1, <2>1, <2>2, <2>3 DEF RowsKept, Inv, TypeOK
<1>6. PICK next : next = [[rq[h] EXCEPT !.session = s] EXCEPT !.pc = "done", !.result = "ok"]
  OBVIOUS
<1>7. next \in RequestRow /\ next.op = "login" /\ next.pc = "done"
  BY <1>1, <1>2, <1>6 DEF RequestRow
<1>8. rq' = [rq EXCEPT ![h] = next] /\ rq'[h] = next
  BY <1>1, <1>6 DEF Reply, Inv, TypeOK
<1>9. Knows(h)'
  BY <1>7, <1>8 DEF Knows
<1>10. active' \in [User -> BOOLEAN] /\ now' \in Nat
  BY DEF LoginCreateSession, Inv, TypeOK
<1>11. Inv'
  BY <1>5, <1>7, <1>8, <1>9, <1>10, OneRequestMoves
<1>12. QED
  BY <1>5, <1>11

LEMMA FindSessionKeeps ==
    ASSUME Inv, NEW h \in Handler, NEW op \in {"use", "logout"}, NEW s \in SessionId,
           FindSessionByTokenHash(h, op, s)
    PROVE  Inv' /\ RowsKept
<1>1. PICK next : /\ rq' = [rq EXCEPT ![h] = next] /\ next \in RequestRow
                  /\ next.op = op /\ next.session = s
                  /\ \/ next.pc = "done" /\ next.result # "ok"
                     \/ /\ next.pc = "user" /\ next.at < sessions[s].expires
                        /\ next.result # "ok"
  <2>1. ASSUME NEW result \in {"expired", "unauthorized"}
        PROVE  LET request == [Idle EXCEPT !.op = op, !.session = s]
                   next == [request EXCEPT !.pc = "done", !.result = result]
               IN  /\ next \in RequestRow /\ next.op = op /\ next.session = s
                   /\ next.pc = "done" /\ next.result # "ok"
    BY DEF Idle, RequestRow
  <2>2. ASSUME Exists(s)
        PROVE  LET request == [Idle EXCEPT !.op = op, !.session = s]
                   found == [request EXCEPT !.user = sessions[s].user]
                   next == [found EXCEPT !.pc = "user", !.at = now]
               IN  /\ next \in RequestRow /\ next.op = op /\ next.session = s
                   /\ next.pc = "user" /\ next.at = now /\ next.result # "ok"
    <3>1. sessions[s].user \in User /\ now \in Nat
      BY <2>2 DEF Inv, TypeOK, SessionRow, Exists
    <3>2. QED
      BY <3>1 DEF Idle, RequestRow
  <2>3. QED
    BY <2>1, <2>2 DEF FindSessionByTokenHash, Reply, Goes, Active
<1>2. rq'[h] = next /\ s \in issued'
  BY <1>1 DEF Inv, TypeOK, FindSessionByTokenHash
<1>3. Knows(h)'
  BY <1>1, <1>2 DEF Knows, FindSessionByTokenHash
<1>4. QED
  BY <1>1, <1>3, OnlyRequestMoves DEF FindSessionByTokenHash

LEMMA FindUserKeeps ==
    ASSUME Inv, NEW h \in Handler, FindUserByID(h)
    PROVE  Inv' /\ RowsKept
<1>1. rq[h] \in RequestRow /\ rq[h].op \in {"use", "logout"} /\ rq[h].pc = "user" /\ Knows(h)
  BY DEF Inv, TypeOK, Knows, FindUserByID
<1>2. PICK next : /\ rq' = [rq EXCEPT ![h] = next] /\ next \in RequestRow
                  /\ next.op = rq[h].op /\ next.session = rq[h].session
                  /\ next.at = rq[h].at
                  /\ next.pc \in {"done", "touch"}
                  /\ next.op = "logout" => next.result # "ok" \/ next.pc = "touch"
                  /\ next.pc = "touch" => next.result = rq[h].result
  <2>1. LET next == [rq[h] EXCEPT !.pc = "done", !.result = "forbidden"]
        IN  /\ next \in RequestRow /\ next.op = rq[h].op /\ next.session = rq[h].session
            /\ next.at = rq[h].at /\ next.pc = "done" /\ next.result = "forbidden"
    BY <1>1 DEF RequestRow
  <2>2. LET next == [rq[h] EXCEPT !.pc = "touch"]
        IN  /\ next \in RequestRow /\ next.op = rq[h].op /\ next.session = rq[h].session
            /\ next.at = rq[h].at /\ next.pc = "touch" /\ next.result = rq[h].result
    BY <1>1 DEF RequestRow
  <2>3. QED
    BY <2>1, <2>2 DEF FindUserByID, Reply
<1>3. rq'[h] = next
  BY <1>2 DEF Inv, TypeOK
<1>4. Knows(h)'
  BY <1>1, <1>2, <1>3 DEF Knows, Exists, FindUserByID
<1>5. next.op = "logout" /\ next.result = "ok"
         => sessions[next.session].revoked # Never \/ ~Exists(next.session)
  BY <1>1, <1>2 DEF Inv, LogoutHolds
<1>6. QED
  BY <1>2, <1>4, <1>5, OnlyRequestMoves DEF FindUserByID

LEMMA LogoutFindSessionKeeps ==
    ASSUME Inv, NEW h \in Handler, LogoutFindSession(h)
    PROVE  Inv' /\ RowsKept
<1>1. rq[h] \in RequestRow /\ rq[h].op = "logout" /\ rq[h].pc = "find" /\ now \in Nat
      /\ rq[h].session \in issued
  BY DEF Inv, TypeOK, Knows, LogoutFindSession
<1>2. PICK next : /\ rq' = [rq EXCEPT ![h] = next] /\ next \in RequestRow
                  /\ next.op = "logout" /\ next.session = rq[h].session
                  /\ \/ next.pc = "done" /\ ~Unrevoked(rq[h].session)
                     \/ next.pc = "revoke" /\ next.result = rq[h].result
  <2>1. LET next == [rq[h] EXCEPT !.pc = "done", !.result = "ok"]
        IN  /\ next \in RequestRow /\ next.op = "logout" /\ next.session = rq[h].session
            /\ next.pc = "done"
    BY <1>1 DEF RequestRow
  <2>2. LET next == [rq[h] EXCEPT !.pc = "revoke", !.at = now]
        IN  /\ next \in RequestRow /\ next.op = "logout" /\ next.session = rq[h].session
            /\ next.pc = "revoke" /\ next.result = rq[h].result
    BY <1>1 DEF RequestRow
  <2>3. QED
    BY <2>1, <2>2 DEF LogoutFindSession, Reply, Goes
<1>3. rq'[h] = next
  BY <1>2 DEF Inv, TypeOK
<1>4. Knows(h)'
  BY <1>1, <1>2, <1>3 DEF Knows, LogoutFindSession
<1>5. next.op = "logout" /\ next.result = "ok"
         => sessions[next.session].revoked # Never \/ ~Exists(next.session)
  BY <1>1, <1>2 DEF Inv, LogoutHolds, Unrevoked
<1>6. QED
  BY <1>2, <1>4, <1>5, OnlyRequestMoves DEF LogoutFindSession

LEMMA TouchSessionKeeps ==
    ASSUME Inv, NEW h \in Handler, TouchSession(h)
    PROVE  Inv' /\ RowsKept
<1>1. /\ rq[h] \in RequestRow /\ rq[h].op \in {"use", "logout"} /\ rq[h].pc = "touch"
      /\ rq[h].session \in issued /\ rq[h].at \in Nat /\ Knows(h)
  BY DEF Inv, TypeOK, Knows, TouchSession, RequestRow
<1>2. PICK s \in SessionId : s = rq[h].session
  BY <1>1 DEF Inv, TypeOK
<1>3. RowsKept
  <2>1. CASE UNCHANGED sessions
    BY <2>1, SameRows DEF TouchSession
  <2>2. CASE Unrevoked(s) /\ sessions' = [sessions EXCEPT ![s].seen = rq[h].at]
    <3>1. PICK row : row = [sessions[s] EXCEPT !.seen = rq[h].at]
      OBVIOUS
    <3>2. /\ row \in SessionRow /\ row.user = sessions[s].user /\ row.seen = rq[h].at
          /\ row.expires = sessions[s].expires /\ row.revoked = sessions[s].revoked
      BY <1>1, <3>1 DEF Inv, TypeOK, SessionRow
    <3>3. sessions' = [sessions EXCEPT ![s] = row]
      BY <2>2, <3>1
    <3>4. sessions' \in [SessionId -> SessionRow] /\ sessions'[s] = row
      BY <3>2, <3>3 DEF Inv, TypeOK
    <3>5. ASSUME NEW r \in SessionId, r # s PROVE RowKept(r)
      BY <3>3, <3>5 DEF Inv, TypeOK, RowKept, IssuedRows, SeenBeforeExpiry, Exists
    <3>6. RowKept(s)
      BY <1>1, <1>2, <2>2, <3>2, <3>4 DEF RowKept, Knows, Unrevoked, Exists
    <3>7. QED
      BY <3>4, <3>5, <3>6 DEF RowsKept, TouchSession, Inv, TypeOK
  <2>3. QED
    BY <1>2, <2>1, <2>2 DEF TouchSession
<1>4. PICK next : /\ rq' = [rq EXCEPT ![h] = next] /\ next \in RequestRow
                  /\ next.op = rq[h].op /\ next.session = s
                  /\ \/ next.pc = "done" /\ (next.op = "use" \/ next.result # "ok")
                     \/ /\ next.pc = "find" /\ next.op = "logout"
                        /\ next.result = rq[h].result
  <2>1. ASSUME NEW result \in {"ok", "unauthorized"}
        PROVE  LET next == [rq[h] EXCEPT !.pc = "done", !.result = result]
               IN  /\ next \in RequestRow /\ next.op = rq[h].op /\ next.session = s
                   /\ next.pc = "done" /\ next.result = result
    BY <1>1, <1>2 DEF RequestRow
  <2>2. LET next == [rq[h] EXCEPT !.pc = "find"]
        IN  /\ next \in RequestRow /\ next.op = rq[h].op /\ next.session = s
            /\ next.pc = "find" /\ next.result = rq[h].result
    BY <1>1, <1>2 DEF RequestRow
  <2>3. CASE rq' = [rq EXCEPT ![h].pc = "find"] /\ rq[h].op = "logout"
    BY <2>2, <2>3
  <2>4. CASE Reply(h, rq[h], "ok") /\ rq[h].op = "use"
    BY <2>1, <2>4 DEF Reply
  <2>5. CASE Reply(h, rq[h], "unauthorized")
    BY <2>1, <2>5 DEF Reply
  <2>6. QED
    BY <2>3, <2>4, <2>5 DEF TouchSession
<1>5. rq'[h] = next
  BY <1>4 DEF Inv, TypeOK
<1>6. Knows(h)'
  BY <1>1, <1>2, <1>4, <1>5 DEF Knows, TouchSession
<1>7. next.op = "logout" /\ next.result = "ok"
         => sessions'[next.session].revoked # Never \/ ~Exists(next.session)'
  <2>1. SUFFICES ASSUME next.op = "logout", next.result = "ok"
                 PROVE  sessions'[s].revoked # Never \/ ~Exists(s)'
    BY <1>4 DEF Exists
  <2>2. sessions[s].revoked # Never \/ ~Exists(s)
    BY <1>2, <1>4, <2>1 DEF Inv, LogoutHolds
  <2>3. s \in issued
    BY <1>1, <1>2
  <2>4. QED
    BY <1>3, <2>2, <2>3, RowsKeptKeeps
<1>8. active' \in [User -> BOOLEAN] /\ now' \in Nat
  BY DEF TouchSession, Inv, TypeOK
<1>9. Inv'
  BY <1>3, <1>4, <1>6, <1>7, <1>8, OneRequestMoves
<1>10. QED
  BY <1>3, <1>9

LEMMA RevokeSessionKeeps ==
    ASSUME Inv, NEW h \in Handler, RevokeSession(h)
    PROVE  Inv' /\ RowsKept
<1>1. /\ rq[h] \in RequestRow /\ rq[h].op = "logout" /\ rq[h].session \in issued
      /\ rq[h].at \in Nat
  BY DEF Inv, TypeOK, Knows, RevokeSession, RequestRow
<1>2. PICK s \in SessionId : s = rq[h].session
  BY <1>1 DEF Inv, TypeOK
<1>3. RowsKept /\ (sessions'[s].revoked # Never \/ ~Exists(s)')
  <2>1. CASE ~Unrevoked(s) /\ UNCHANGED sessions
    BY <2>1, SameRows DEF RevokeSession, Unrevoked, Exists
  <2>2. CASE Unrevoked(s) /\ sessions' = [sessions EXCEPT ![s] = Revoked(@, rq[h].at)]
    <3>1. PICK row : row = Revoked(sessions[s], rq[h].at)
      OBVIOUS
    <3>2. /\ row \in SessionRow /\ row.user = sessions[s].user
          /\ row.seen = sessions[s].seen /\ row.expires = sessions[s].expires
          /\ row.revoked # Never
      BY <1>1, <3>1 DEF Inv, TypeOK, SessionRow, Revoked, Never
    <3>3. sessions' = [sessions EXCEPT ![s] = row]
      BY <2>2, <3>1
    <3>4. sessions' \in [SessionId -> SessionRow] /\ sessions'[s] = row
      BY <3>2, <3>3 DEF Inv, TypeOK
    <3>5. ASSUME NEW r \in SessionId, r # s PROVE RowKept(r)
      BY <3>3, <3>5 DEF Inv, TypeOK, RowKept, IssuedRows, SeenBeforeExpiry, Exists
    <3>6. RowKept(s)
      BY <2>2, <3>2, <3>4 DEF RowKept, Unrevoked, Exists, Inv, SeenBeforeExpiry
    <3>7. QED
      BY <3>2, <3>4, <3>5, <3>6 DEF RowsKept, RevokeSession, Inv, TypeOK
  <2>3. QED
    BY <1>2, <2>1, <2>2 DEF RevokeSession
<1>4. PICK next : next = [rq[h] EXCEPT !.pc = "done", !.result = "ok"]
  OBVIOUS
<1>5. /\ next \in RequestRow /\ next.op = "logout" /\ next.session = s /\ next.pc = "done"
  BY <1>1, <1>2, <1>4 DEF RequestRow
<1>6. rq' = [rq EXCEPT ![h] = next] /\ rq'[h] = next
  BY <1>4 DEF RevokeSession, Reply, Inv, TypeOK
<1>7. Knows(h)'
  BY <1>1, <1>2, <1>5, <1>6 DEF Knows, RevokeSession
<1>8. sessions'[next.session].revoked # Never \/ ~Exists(next.session)'
  BY <1>3, <1>5 DEF Exists
<1>9. active' \in [User -> BOOLEAN] /\ now' \in Nat
  BY DEF RevokeSession, Inv, TypeOK
<1>10. Inv'
  BY <1>3, <1>5, <1>6, <1>7, <1>8, <1>9, OneRequestMoves
<1>11. QED
  BY <1>3, <1>10

LEMMA EndRequestKeeps ==
    ASSUME Inv, NEW h \in Handler, EndRequest(h)
    PROVE  Inv' /\ RowsKept
<1>1. PICK next : next = Idle
  OBVIOUS
<1>2. next \in RequestRow /\ next.op = "none" /\ next.pc = "idle"
  BY <1>1 DEF Idle, RequestRow
<1>3. rq' = [rq EXCEPT ![h] = next] /\ rq'[h] = next
  BY <1>1 DEF EndRequest, Inv, TypeOK
<1>4. Knows(h)'
  BY <1>2, <1>3 DEF Knows
<1>5. QED
  BY <1>2, <1>3, <1>4, OnlyRequestMoves DEF EndRequest

LEMMA HandlerStepKeeps ==
    ASSUME Inv, NEW h \in Handler, HandlerStep(h)
    PROVE  Inv' /\ RowsKept
  BY LoginFindUserKeeps, LoginCreateSessionKeeps, FindSessionKeeps, FindUserKeeps,
     TouchSessionKeeps, LogoutFindSessionKeeps, RevokeSessionKeeps, EndRequestKeeps
     DEF HandlerStep

\* A step of the worker, of the accounts or of the clock moves no request.
LEMMA OthersKeep ==
    ASSUME Inv, RowsKept, UNCHANGED rq, active' \in [User -> BOOLEAN], now' \in Nat
    PROVE  Inv'
<1>1. TypeOK'
  BY DEF Inv, TypeOK, RowsKept
<1>2. IssuedRows' /\ SeenBeforeExpiry' /\ \A h \in Handler : Knows(h)'
  BY RowsKeptKeeps
<1>3. ASSUME NEW h \in Handler, NEW s, s = rq[h].session,
             rq[h].op = "logout", rq[h].result = "ok"
      PROVE  sessions'[s].revoked # Never \/ ~Exists(s)'
  <2>1. s \in issued /\ (sessions[s].revoked # Never \/ ~Exists(s))
    BY <1>3 DEF Inv, Knows, LogoutHolds
  <2>2. QED
    BY <2>1, RowsKeptKeeps
<1>4. LogoutHolds'
  BY <1>3 DEF LogoutHolds, Exists
<1>5. QED
  BY <1>1, <1>2, <1>4 DEF Inv

LEMMA DeleteExpiredKeeps ==
    ASSUME Inv, DeleteExpiredSessions
    PROVE  Inv' /\ RowsKept
<1>1. sessions' \in [SessionId -> SessionRow]
  BY NoSessionType DEF DeleteExpiredSessions, Inv, TypeOK
<1>2. ASSUME NEW s \in SessionId PROVE RowKept(s)
  <2>1. sessions'[s] = NoSession \/ sessions'[s] = sessions[s]
    BY DEF DeleteExpiredSessions
  <2>2. QED
    BY <2>1 DEF Inv, RowKept, IssuedRows, SeenBeforeExpiry, Exists
<1>3. RowsKept
  BY <1>1, <1>2 DEF RowsKept, DeleteExpiredSessions, Inv, TypeOK
<1>4. QED
  BY <1>3, OthersKeep DEF DeleteExpiredSessions, Inv, TypeOK

LEMMA NextKeeps ==
    ASSUME Inv, [Next]_vars
    PROVE  Inv' /\ RowsKept
<1>1. CASE \E h \in Handler : HandlerStep(h)
  BY <1>1, HandlerStepKeeps
<1>2. CASE DeleteExpiredSessions
  BY <1>2, DeleteExpiredKeeps
<1>3. CASE \E u \in User : Deactivate(u)
  BY <1>3, SameRows, OthersKeep DEF Deactivate, Inv, TypeOK
<1>4. CASE AdvanceClock
  BY <1>4, SameRows, OthersKeep DEF AdvanceClock, Inv, TypeOK
<1>5. CASE UNCHANGED vars
  BY <1>5, SameRows, OthersKeep DEF vars, Inv, TypeOK
<1>6. QED
  BY <1>1, <1>2, <1>3, <1>4, <1>5 DEF Next

-----------------------------------------------------------------------------
\* The inductive invariant.
THEOREM SessionsInvariant == Spec => []Inv
<1>1. Inv /\ [Next]_vars => Inv'
  BY NextKeeps
<1>2. QED
  BY <1>1, InitInv, PTL DEF Spec

\* Tables and requests hold values of their types.
THEOREM SessionsTypeCorrect == Spec => []TypeOK
<1>1. Inv => TypeOK
  BY DEF Inv
<1>2. QED
  BY <1>1, SessionsInvariant, PTL

\* TouchSession writes the time at which the expiry was checked, not the time at which it runs.
THEOREM SeenWithinLifetime == Spec => []SeenBeforeExpiry
<1>1. Inv => SeenBeforeExpiry
  BY DEF Inv
<1>2. QED
  BY <1>1, SessionsInvariant, PTL

\* After a logout that was answered, its session is revoked or gone for good.
THEOREM LogoutIsLasting == Spec => []LogoutHolds
<1>1. Inv => LogoutHolds
  BY DEF Inv
<1>2. QED
  BY <1>1, SessionsInvariant, PTL

\* A revocation is never undone and never dated again.
THEOREM RevocationsAreFinal == Spec => RevocationIsFinal
<1>1. Inv /\ [Next]_vars => [\A s \in SessionId : sessions[s].revoked # Never
          => sessions'[s].revoked = sessions[s].revoked \/ sessions'[s] = NoSession]_vars
  <2>1. SUFFICES ASSUME Inv, [Next]_vars, NEW s \in SessionId, sessions[s].revoked # Never
                 PROVE  sessions'[s].revoked = sessions[s].revoked \/ sessions'[s] = NoSession
    OBVIOUS
  <2>2. RowKept(s)
    BY <2>1, NextKeeps DEF RowsKept
  <2>3. QED
    BY <2>1, <2>2, NoSessionType DEF RowKept, Inv, IssuedRows
<1>2. QED
  BY <1>1, SessionsInvariant, PTL DEF Spec, RevocationIsFinal

\* A request about to touch its session moves in no step but its own TouchSession.
LEMMA OnlyTouchMoves ==
    ASSUME Inv, Next, NEW h \in Handler, rq[h].pc = "touch", rq'[h] # rq[h]
    PROVE  TouchSession(h)
<1>1. PICK g \in Handler : HandlerStep(g)
  BY DEF Next, DeleteExpiredSessions, Deactivate, AdvanceClock
<1>2. \E next : rq' = [rq EXCEPT ![g] = next]
  BY <1>1 DEF HandlerStep, LoginFindUser, LoginCreateSession, FindSessionByTokenHash,
             FindUserByID, TouchSession, LogoutFindSession, RevokeSession, EndRequest,
             Reply, Goes
<1>3. g = h
  BY <1>2 DEF Inv, TypeOK
<1>4. QED
  BY <1>1, <1>3 DEF HandlerStep, LoginFindUser, LoginCreateSession, FindSessionByTokenHash,
             FindUserByID, LogoutFindSession, RevokeSession, EndRequest

\* A logout that was answered shuts out every request over its session, at whatever
\* statement the request is.
THEOREM LogoutShutsRequestsOut == Spec => LogoutShutsOut
<1>1. Inv /\ [Next]_vars => [\A g, h \in Handler :
          /\ rq[h].op = "logout" /\ rq[h].result = "ok" /\ rq[g].session = rq[h].session
          /\ rq[g].pc = "touch" /\ rq'[g] # rq[g]
          => rq'[g].result = "unauthorized"]_vars
  <2>1. SUFFICES ASSUME Inv, Next, NEW g \in Handler, NEW h \in Handler,
                        rq[h].op = "logout", rq[h].result = "ok",
                        rq[g].session = rq[h].session, rq[g].pc = "touch", rq'[g] # rq[g]
                 PROVE  rq'[g].result = "unauthorized"
    OBVIOUS
  <2>2. TouchSession(g)
    BY <2>1, OnlyTouchMoves
  <2>3. ~Unrevoked(rq[g].session)
    BY <2>1 DEF Inv, LogoutHolds, Unrevoked
  <2>4. Reply(g, rq[g], "unauthorized")
    BY <2>2, <2>3 DEF TouchSession
  <2>5. rq[g] \in RequestRow
    BY <2>1 DEF Inv, TypeOK
  <2>6. LET next == [rq[g] EXCEPT !.pc = "done", !.result = "unauthorized"]
        IN  next \in RequestRow /\ next.result = "unauthorized"
    BY <2>5 DEF RequestRow
  <2>7. PICK next : next.result = "unauthorized" /\ rq' = [rq EXCEPT ![g] = next]
    BY <2>4, <2>6 DEF Reply
  <2>8. QED
    BY <2>1, <2>7 DEF Inv, TypeOK
<1>2. QED
  BY <1>1, SessionsInvariant, PTL DEF Spec, LogoutShutsOut
=============================================================================
