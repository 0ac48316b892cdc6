------------------------- MODULE SessionsProperties -------------------------
(* What Sessions keeps true, and what the README says that it does not.    *)
EXTENDS Sessions

\* Once a logout was answered nobody is admitted with its token any more, not even a request
\* that read the session before it was revoked and has yet to touch it.
LogoutShutsOut ==
    [][\A g, h \in Handler :
          /\ rq[h].op = "logout" /\ rq[h].result = "ok" /\ rq[g].session = rq[h].session
          /\ rq[g].pc = "touch" /\ rq'[g] # rq[g]
          => rq'[g].result = "unauthorized"]_vars

\* No session is ever seen at or after its expiry, whatever time passes between the read of
\* the clock and the update.
SeenBeforeExpiry ==
    \A s \in SessionId : Exists(s) => sessions[s].seen < sessions[s].expires

\* Once a logout was answered its session is revoked or gone, also when two logouts and the
\* worker's removal race; a session that is gone has no other life.
LogoutHolds ==
    \A h \in Handler : rq[h].op = "logout" /\ rq[h].result = "ok"
        => sessions[rq[h].session].revoked # Never \/ ~Exists(rq[h].session)

\* A revoked session keeps the time of its first revocation until it is removed, so it is
\* kept for a day from then on and no longer.
RevocationIsFinal ==
    [][\A s \in SessionId : sessions[s].revoked # Never
          => sessions'[s].revoked = sessions[s].revoked \/ sessions'[s] = NoSession]_vars

\* Every session that has expired is removed, whatever requests still use it, and without
\* waiting for a later time: nothing says that the clock goes on.
ExpiredSessionsRemoved ==
    \A s \in SessionId : (Exists(s) /\ sessions[s].expires <= now) ~> ~Exists(s)

\* So is every session whose revocation is a day old, long before it expires: neither a touch
\* nor another logout that is still in flight keeps it or starts its day again.
RevokedSessionsRemoved ==
    \A s \in SessionId :
        (Exists(s) /\ sessions[s].revoked # Never /\ sessions[s].revoked <= now - Keep)
        ~> ~Exists(s)

\* README.md:15: the built-in accounts log in with their passwords.  A right password of an
\* account that is active is never answered with an error.
RightPasswordLogsIn ==
    \A h \in Handler : rq[h].op = "login" /\ rq[h].right => rq[h].result # "error"
=============================================================================
