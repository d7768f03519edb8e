--------------------------- MODULE SessionsProofs ---------------------------
(***************************************************************************)
(* Proofs about the login sessions, for any number of tokens, links and     *)
(* requests in flight.                                                      *)
(***************************************************************************)
EXTENDS Sessions, FiniteSetTheorems, TLAPS

\* A link that has set the password is used; one whose transaction is under way is
\* not, and no other transaction has it: so it sets the password once.
LinkInv ==
    /\ \A i, j \in DOMAIN passwords : passwords[i] \in Links /\ passwords[i] = passwords[j] => i = j
    /\ \A i \in DOMAIN passwords : passwords[i] \in Links => link[passwords[i]] = "used"
    /\ \A c \in Calls, l \in Links : Holds(c, l) => link[l] \in {"open", "expired"}
    /\ \A c, d \in Calls, l \in Links : Holds(c, l) /\ Holds(d, l) => c = d

SessionsInv ==
    SessionsTypeOK /\ LinkInv /\ OldPasswordsSessionsEnd /\ SuspensionEndsSessions

LEMMA SessionsInvInit == Init => SessionsInv
<1> SUFFICES ASSUME Init PROVE SessionsInv
  OBVIOUS
<1>1. /\ passwords \in Seq({"signup", "change"} \cup Links)
      /\ Len(passwords) = 1 /\ DOMAIN passwords = {1} /\ passwords[1] = "signup"
  BY DEF Init
<1>2. Idle \in Handlers /\ Idle.kind = "idle"
  BY DEF Idle, Handlers
<1>3. SessionsTypeOK
  <2>1. NoSession \in [state : {"none", "live", "revoked"},
                       passwords : 0..MaxPasswords, suspensions : 0..MaxSuspensions]
    BY SessionsAssumption DEF NoSession
  <2>2. Len(passwords) \in 1..MaxPasswords /\ suspensions \in 0..MaxSuspensions
    BY <1>1, SessionsAssumption DEF Init
  <2> QED BY <1>1, <1>2, <2>1, <2>2 DEF Init, SessionsTypeOK
<1>4. LinkInv
  BY <1>1, <1>2, SessionsAssumption DEF Init, LinkInv, Holds
<1>5. OldPasswordsSessionsEnd /\ SuspensionEndsSessions
  BY DEF Init, OldPasswordsSessionsEnd, SuspensionEndsSessions, NoSession, Live
<1> QED BY <1>3, <1>4, <1>5 DEF SessionsInv

\* What the helpers keep of the types.
LEMMA RevokedRows ==
    ASSUME SessionsTypeOK
    PROVE  /\ AllRevoked \in [Tokens -> [state : {"none", "live", "revoked"},
                                passwords : 0..MaxPasswords, suspensions : 0..MaxSuspensions]]
           /\ \A t \in Tokens : AllRevoked[t].state # "live"
BY DEF SessionsTypeOK, AllRevoked, Revoked

LEMMA PasswordAppended ==
    ASSUME SessionsTypeOK, NEW writer \in {"signup", "change"} \cup Links, SetPassword(writer)
    PROVE  /\ passwords' \in Seq({"signup", "change"} \cup Links)
           /\ Len(passwords') = Len(passwords) + 1 /\ Len(passwords') \in 1..MaxPasswords
           /\ \A i \in DOMAIN passwords' : \/ i \in DOMAIN passwords /\ passwords'[i] = passwords[i]
                                           \/ i = Len(passwords) + 1 /\ passwords'[i] = writer
<1> DEFINE Writers == {"signup", "change"} \cup Links
<1>1. passwords \in Seq(Writers) /\ Len(passwords) \in Nat /\ passwords' = Append(passwords, writer)
  BY SessionsAssumption DEF SessionsTypeOK, SetPassword
<1>2. Len(passwords) < MaxPasswords
  BY DEF SetPassword
<1> HIDE DEF Writers
<1>3. writer \in Writers
  BY DEF Writers
<1>4. /\ passwords' \in Seq(Writers) /\ Len(passwords') = Len(passwords) + 1
      /\ \A i \in 1..Len(passwords) : passwords'[i] = passwords[i]
      /\ passwords'[Len(passwords) + 1] = writer
  BY <1>1, <1>3
<1>5. DOMAIN passwords = 1..Len(passwords) /\ DOMAIN passwords' = 1..Len(passwords')
  BY <1>1, <1>4
<1>6. Len(passwords') \in 1..MaxPasswords
  BY <1>1, <1>2, <1>4, SessionsAssumption
<1>7. \A i \in DOMAIN passwords' : \/ i \in DOMAIN passwords /\ passwords'[i] = passwords[i]
                                   \/ i = Len(passwords) + 1 /\ passwords'[i] = writer
  BY <1>1, <1>4, <1>5
<1>8. passwords' \in Seq({"signup", "change"} \cup Links)
  BY <1>4 DEF Writers
<1>9. Len(passwords') = Len(passwords) + 1
  BY <1>4
<1> QED BY <1>6, <1>7, <1>8, <1>9

\* A request that holds no link, or the one it held, leaves the links alone.
LEMMA LinkInvKept ==
    ASSUME SessionsTypeOK, LinkInv, UNCHANGED <<passwords, link>>,
           NEW c \in Calls, NEW h \in Handlers,
           h.kind \in {"reset", "written"} => Holds(c, h.link),
           call' = [call EXCEPT ![c] = h]
    PROVE  LinkInv'
<1>1. \A d \in Calls, l \in Links : Holds(d, l)' => Holds(d, l)
  BY DEF SessionsTypeOK, Holds
<1> QED BY <1>1 DEF LinkInv

LEMMA SessionsInvNext == SessionsInv /\ [Next]_vars => SessionsInv'
<1> SUFFICES ASSUME SessionsInv, [Next]_vars PROVE SessionsInv'
  OBVIOUS
<1> USE DEF SessionsInv
<1>1. ASSUME NEW c \in Calls, NEW kind \in {"login", "change", "delete"}, ReadUser(c, kind)
      PROVE  SessionsInv'
  <2>1. [kind |-> kind] \in Handlers /\ call[c] = Idle
    BY <1>1 DEF Handlers, ReadUser
  <2>2. SessionsTypeOK'
    BY <1>1, <2>1 DEF ReadUser, Becomes, SessionsTypeOK
  <2>3. LinkInv'
    BY <1>1, <2>1, LinkInvKept DEF ReadUser, Becomes
  <2>4. OldPasswordsSessionsEnd' /\ SuspensionEndsSessions'
    BY <1>1, <2>1 DEF ReadUser, Becomes, Idle, SessionsTypeOK, OldPasswordsSessionsEnd,
       SuspensionEndsSessions, Live
  <2> QED BY <2>2, <2>3, <2>4
<1>2. ASSUME NEW c \in Calls, NEW t \in Tokens, Login(c, t) PROVE SessionsInv'
  <2>1. Idle \in Handlers /\ Idle.kind = "idle"
    BY DEF Handlers, Idle
  <2>2. SessionsTypeOK'
    BY <1>2, <2>1 DEF Login, Becomes, SessionsTypeOK
  <2>3. LinkInv'
    BY <1>2, <2>1, LinkInvKept DEF Login, Becomes
  <2>4. OldPasswordsSessionsEnd' /\ SuspensionEndsSessions'
    BY <1>2 DEF Login, Becomes, SessionsTypeOK, OldPasswordsSessionsEnd,
       SuspensionEndsSessions, Live
  <2> QED BY <2>2, <2>3, <2>4
<1>3. ASSUME NEW t \in Tokens, Logout(t) PROVE SessionsInv'
  <2>1. SessionsTypeOK'
    BY <1>3 DEF Logout, Revoked, SessionsTypeOK
  <2>2. LinkInv'
    BY <1>3 DEF Logout, LinkInv, Holds
  <2>3. OldPasswordsSessionsEnd' /\ SuspensionEndsSessions'
    BY <1>3 DEF Logout, Revoked, SessionsTypeOK, OldPasswordsSessionsEnd, SuspensionEndsSessions, Live
  <2> QED BY <2>1, <2>2, <2>3
<1>4. ASSUME NEW c \in Calls, ChangePassword(c) PROVE SessionsInv'
  <2>1. [kind |-> "revoke"] \in Handlers /\ call[c].kind = "change"
    BY <1>4 DEF Handlers, ChangePassword
  <2>2. SessionsTypeOK'
    <3>1. passwords' \in Seq({"signup", "change"} \cup Links) /\ Len(passwords') \in 1..MaxPasswords
      <4>1. CASE UNCHANGED passwords
        BY <4>1 DEF SessionsTypeOK
      <4>2. CASE SetPassword("change")
        BY <4>2, PasswordAppended
      <4> QED BY <1>4, <4>1, <4>2 DEF ChangePassword
    <3> QED BY <1>4, <2>1, <3>1 DEF ChangePassword, Becomes, SessionsTypeOK
  <2>3. LinkInv'
    <3>1. CASE UNCHANGED passwords
      BY <1>4, <2>1, <3>1, LinkInvKept DEF ChangePassword, Becomes
    <3>2. CASE SetPassword("change")
      <4>1. \A i \in DOMAIN passwords' : passwords'[i] \in Links =>
                i \in DOMAIN passwords /\ passwords'[i] = passwords[i]
        BY <3>2, PasswordAppended, SessionsAssumption
      <4>2. link' = link /\ call' = [call EXCEPT ![c] = [kind |-> "revoke"]]
        BY <1>4 DEF ChangePassword, Becomes
      <4>3. \A d \in Calls, l \in Links : Holds(d, l)' => Holds(d, l)
        BY <4>2 DEF SessionsTypeOK, Holds
      <4> QED BY <4>1, <4>2, <4>3 DEF SessionsTypeOK, LinkInv
    <3> QED BY <1>4, <3>1, <3>2 DEF ChangePassword
  <2>4. \E d \in Calls : call'[d].kind = "revoke"
    BY <1>4 DEF ChangePassword, Becomes, SessionsTypeOK
  <2>5. OldPasswordsSessionsEnd' /\ SuspensionEndsSessions'
    BY <1>4, <2>1, <2>4 DEF ChangePassword, Becomes, SessionsTypeOK, OldPasswordsSessionsEnd,
       SuspensionEndsSessions, Live
  <2> QED BY <2>2, <2>3, <2>5
<1>5. ASSUME NEW c \in Calls, Suspend(c) PROVE SessionsInv'
  <2>1. [kind |-> "suspend"] \in Handlers /\ call[c] = Idle
    BY <1>5 DEF Handlers, Suspend
  <2>2. SessionsTypeOK'
    BY <1>5, <2>1, SessionsAssumption DEF Suspend, Becomes, SessionsTypeOK
  <2>3. LinkInv'
    BY <1>5, <2>1, LinkInvKept DEF Suspend, Becomes
  <2>4. \E d \in Calls : call'[d].kind = "suspend"
    BY <1>5 DEF Suspend, Becomes, SessionsTypeOK
  <2>5. OldPasswordsSessionsEnd' /\ SuspensionEndsSessions'
    BY <1>5, <2>1, <2>4 DEF Suspend, Becomes, Idle, SessionsTypeOK, OldPasswordsSessionsEnd,
       SuspensionEndsSessions, Live
  <2> QED BY <2>2, <2>3, <2>5
<1>6. ASSUME NEW c \in Calls, RevokeSessions(c) PROVE SessionsInv'
  <2>1. Idle \in Handlers /\ Idle.kind = "idle"
    BY DEF Handlers, Idle
  <2>2. SessionsTypeOK'
    BY <1>6, <2>1, RevokedRows DEF RevokeSessions, Becomes, SessionsTypeOK
  <2>3. LinkInv'
    BY <1>6, <2>1, LinkInvKept DEF RevokeSessions, Becomes
  <2>4. OldPasswordsSessionsEnd' /\ SuspensionEndsSessions'
    BY <1>6, RevokedRows DEF RevokeSessions, OldPasswordsSessionsEnd, SuspensionEndsSessions, Live
  <2> QED BY <2>2, <2>3, <2>4
<1>7. CASE Unsuspend
  BY <1>7 DEF Unsuspend, SessionsTypeOK, LinkInv, Holds, OldPasswordsSessionsEnd, SuspensionEndsSessions, Live
<1>8. ASSUME NEW l \in Links, ForgotPassword(l) \/ ExpireLink(l) PROVE SessionsInv'
  <2>1. link[l] # "used" /\ link' \in [Links -> {"unsent", "open", "used", "expired"}]
    BY <1>8 DEF ForgotPassword, ExpireLink, SessionsTypeOK
  <2>2. SessionsTypeOK' /\ OldPasswordsSessionsEnd' /\ SuspensionEndsSessions'
    BY <1>8, <2>1 DEF ForgotPassword, ExpireLink, SessionsTypeOK, OldPasswordsSessionsEnd,
       SuspensionEndsSessions, Live
  <2>3. LinkInv'
    <3>1. \A d \in Calls, k \in Links : Holds(d, k)' <=> Holds(d, k)
      BY <1>8 DEF ForgotPassword, ExpireLink, Holds
    <3>2. \A d \in Calls, k \in Links : Holds(d, k) => link'[k] \in {"open", "expired"}
      BY <1>8 DEF ForgotPassword, ExpireLink, SessionsTypeOK, LinkInv
    <3> QED BY <1>8, <2>1, <3>1, <3>2 DEF ForgotPassword, ExpireLink, SessionsTypeOK, LinkInv
  <2> QED BY <2>2, <2>3
<1>9. ASSUME NEW c \in Calls, NEW l \in Links, BeginReset(c, l) PROVE SessionsInv'
  <2>1. [kind |-> "reset", link |-> l] \in Handlers /\ call[c] = Idle
    BY <1>9 DEF Handlers, BeginReset
  <2>2. SessionsTypeOK'
    BY <1>9, <2>1 DEF BeginReset, Becomes, SessionsTypeOK
  <2>3. LinkInv'
    <3>1. \A d \in Calls, k \in Links : Holds(d, k)' => Holds(d, k) \/ (d = c /\ k = l)
      BY <1>9 DEF BeginReset, Becomes, Holds, SessionsTypeOK
    <3>2. link[l] = "open" /\ \A d \in Calls : ~Holds(d, l)
      BY <1>9 DEF BeginReset, Usable
    <3> QED BY <1>9, <3>1, <3>2 DEF BeginReset, LinkInv
  <2>4. OldPasswordsSessionsEnd' /\ SuspensionEndsSessions'
    BY <1>9, <2>1 DEF BeginReset, Becomes, Idle, SessionsTypeOK, OldPasswordsSessionsEnd,
       SuspensionEndsSessions, Live
  <2> QED BY <2>2, <2>3, <2>4
<1>10. ASSUME NEW c \in Calls, WriteReset(c) PROVE SessionsInv'
  <2> DEFINE h == [kind |-> "written", link |-> call[c].link, revoked |-> {t \in Tokens : Live(t)}]
  <2>1. h \in Handlers /\ call[c].kind = "reset" /\ Holds(c, h.link)
    <3>1. call[c] \in Handlers /\ call[c].kind = "reset"
      BY <1>10 DEF WriteReset, SessionsTypeOK
    <3>2. call[c].link \in Links
      BY <3>1 DEF Handlers
    <3> QED BY <3>1, <3>2 DEF Handlers, Holds
  <2>2. call' = [call EXCEPT ![c] = h] /\ UNCHANGED <<exists, passwords, suspended, suspensions, session, link, spared>>
    BY <1>10 DEF WriteReset, Becomes
  <2> HIDE DEF h
  <2>3. SessionsTypeOK'
    BY <2>1, <2>2 DEF SessionsTypeOK
  <2>4. LinkInv'
    BY <2>1, <2>2, LinkInvKept
  <2>5. OldPasswordsSessionsEnd' /\ SuspensionEndsSessions'
    BY <2>1, <2>2 DEF SessionsTypeOK, OldPasswordsSessionsEnd, SuspensionEndsSessions, Live
  <2> QED BY <2>3, <2>4, <2>5
<1>11. ASSUME NEW c \in Calls, CommitReset(c) PROVE SessionsInv'
  <2> DEFINE l == call[c].link
  <2>1. l \in Links /\ Idle \in Handlers /\ Holds(c, l)
    <3>1. call[c] \in Handlers /\ call[c].kind = "written"
      BY <1>11 DEF CommitReset, SessionsTypeOK
    <3> QED BY <3>1 DEF Handlers, Idle, Holds
  <2>2. /\ SetPassword(l) /\ call' = [call EXCEPT ![c] = Idle] /\ link' = [link EXCEPT ![l] = "used"]
        /\ spared' = spared \cup {t \in Tokens \ call[c].revoked : Live(t)}
        /\ session' = [t \in Tokens |-> IF t \in call[c].revoked THEN Revoked(session[t]) ELSE session[t]]
        /\ UNCHANGED <<exists, suspended, suspensions>>
    BY <1>11 DEF CommitReset
  <2>3. /\ passwords' \in Seq({"signup", "change"} \cup Links) /\ Len(passwords') \in 1..MaxPasswords
        /\ \A i \in DOMAIN passwords' : \/ i \in DOMAIN passwords /\ passwords'[i] = passwords[i]
                                        \/ i = Len(passwords) + 1 /\ passwords'[i] = l
    BY <2>1, <2>2, PasswordAppended
  <2>4. \A i \in DOMAIN passwords : passwords[i] # l
    BY <2>1 DEF LinkInv
  <2>5. \A t \in Tokens : Live(t)' => Live(t) /\ session'[t] = session[t] /\ t \in spared'
    BY <2>2 DEF SessionsTypeOK, Live, Revoked
  <2> HIDE DEF l
  <2>6. SessionsTypeOK'
    BY <2>1, <2>2, <2>3 DEF SessionsTypeOK, Revoked
  <2>7. LinkInv'
    <3>1. \A i, j \in DOMAIN passwords' :
              passwords'[i] \in Links /\ passwords'[i] = passwords'[j] => i = j
      BY <2>1, <2>3, <2>4 DEF LinkInv
    <3>2. \A i \in DOMAIN passwords' : passwords'[i] \in Links => link'[passwords'[i]] = "used"
      BY <2>1, <2>2, <2>3 DEF SessionsTypeOK, LinkInv
    <3>3. \A d \in Calls, k \in Links : Holds(d, k)' => Holds(d, k) /\ d # c
      BY <2>2 DEF SessionsTypeOK, Holds, Idle
    <3>4. \A d \in Calls, k \in Links : Holds(d, k)' => k # l
      BY <2>1, <3>3 DEF LinkInv
    <3> QED BY <2>2, <3>1, <3>2, <3>3, <3>4 DEF SessionsTypeOK, LinkInv
  <2>8. OldPasswordsSessionsEnd' /\ SuspensionEndsSessions'
    BY <2>5 DEF OldPasswordsSessionsEnd, SuspensionEndsSessions, Live
  <2> QED BY <2>6, <2>7, <2>8
<1>12. ASSUME NEW c \in Calls, DeleteAccount(c) PROVE SessionsInv'
  <2>1. Idle \in Handlers /\ Idle.kind = "idle" /\ session' = AllRevoked
    BY <1>12 DEF Handlers, Idle, DeleteAccount, AllRevoked
  <2>2. SessionsTypeOK'
    BY <1>12, <2>1, RevokedRows DEF DeleteAccount, Becomes, SessionsTypeOK
  <2>3. LinkInv'
    BY <1>12, <2>1 DEF DeleteAccount, Becomes, SessionsTypeOK, LinkInv, Holds
  <2>4. OldPasswordsSessionsEnd' /\ SuspensionEndsSessions'
    BY <2>1, RevokedRows DEF OldPasswordsSessionsEnd, SuspensionEndsSessions, Live
  <2> QED BY <2>2, <2>3, <2>4
<1>13. ASSUME NEW c \in Calls, Fail(c) PROVE SessionsInv'
  <2>1. Idle \in Handlers /\ Idle.kind = "idle"
    BY DEF Handlers, Idle
  <2>2. SessionsTypeOK'
    BY <1>13, <2>1 DEF Fail, SessionsTypeOK
  <2>3. LinkInv'
    BY <1>13, <2>1, LinkInvKept DEF Fail
  <2>4. OldPasswordsSessionsEnd' /\ SuspensionEndsSessions'
    BY <1>13 DEF Fail, SessionsTypeOK, OldPasswordsSessionsEnd, SuspensionEndsSessions, Live
  <2> QED BY <2>2, <2>3, <2>4
<1>14. CASE UNCHANGED vars
  BY <1>14 DEF vars, SessionsTypeOK, LinkInv, Holds, OldPasswordsSessionsEnd, SuspensionEndsSessions, Live
<1> QED BY <1>1, <1>2, <1>3, <1>4, <1>5, <1>6, <1>7, <1>8, <1>9, <1>10, <1>11, <1>12, <1>13, <1>14 DEF Next

LEMMA SessionsInvariant == Spec => []SessionsInv
BY SessionsInvInit, SessionsInvNext, PTL DEF Spec

\* The rows and the handlers in flight keep their types.
THEOREM SessionsTypeCorrect == Spec => []SessionsTypeOK
<1>1. SessionsInv => SessionsTypeOK
  BY DEF SessionsInv
<1> QED BY <1>1, SessionsInvariant, PTL

\* However many requests carry a reset link, it sets the password once.
THEOREM LinksSetOnce == Spec => []LinkSetsPasswordOnce
<1>1. SessionsInv => LinkSetsPasswordOnce
  <2> SUFFICES ASSUME SessionsInv, NEW l \in Links
               PROVE  Cardinality({i \in DOMAIN passwords : passwords[i] = l}) <= 1
    BY DEF LinkSetsPasswordOnce
  <2> DEFINE S == {i \in DOMAIN passwords : passwords[i] = l}
  <2>1. CASE S = {}
    BY <2>1, FS_EmptySet
  <2>2. ASSUME NEW i \in S PROVE Cardinality(S) <= 1
    <3>1. S = {i}
      BY <2>2 DEF SessionsInv, LinkInv
    <3>2. Cardinality({i}) = 1
      BY FS_Singleton
    <3> QED BY <3>1, <3>2
  <2> QED BY <2>1, <2>2
<1> QED BY <1>1, SessionsInvariant, PTL

\* Whatever is in flight, no session inserted before the present password was committed
\* is live, but while a change stands between its two queries, where its second query
\* failed, or where the session was inserted between a reset's last UPDATE and its COMMIT.
THEOREM OldSessionsEnd == Spec => []OldPasswordsSessionsEnd
<1>1. SessionsInv => OldPasswordsSessionsEnd
  BY DEF SessionsInv
<1> QED BY <1>1, SessionsInvariant, PTL

\* No session inserted before a suspension is live, but until the suspension's second
\* query, or where that one failed.
THEOREM SuspendedSessionsEnd == Spec => []SuspensionEndsSessions
<1>1. SessionsInv => SuspensionEndsSessions
  BY DEF SessionsInv
<1> QED BY <1>1, SessionsInvariant, PTL
=============================================================================
