------------------------------ MODULE Sessions ------------------------------
(* The login sessions of one account: routes/auth.js, routes/account.js and  *)
(* the suspension in routes/admin.js.  A session is a row of refresh_tokens. *)
(* The handlers are not transactions, the password reset excepted: every     *)
(* query is a step of its own, and between two of them bcrypt runs on its    *)
(* thread pool while other requests proceed.  The reset's transaction takes  *)
(* three steps: it locks its link, it updates, it commits.  A request that   *)
(* is answered without having written anything is not a step.                *)
(* Accounts share no row, so one account stands for all of them.             *)
EXTENDS Naturals, Sequences, FiniteSets

CONSTANTS
  Tokens,           \* the rows refresh_tokens can ever get
  Links,            \* the rows password_resets can ever get
  Calls,            \* the requests that can be in flight at once
  MaxPasswords,     \* bound: password writes, the one of the signup included
  MaxSuspensions    \* bound: suspensions

ASSUME SessionsAssumption ==
  /\ MaxPasswords \in Nat \ {0} /\ MaxSuspensions \in Nat
  /\ Links \cap {"signup", "change"} = {}

VARIABLES
  exists,           \* the row of users is there
  passwords,        \* who wrote users.password_hash, in the order of the writes
  suspended,        \* users.is_suspended
  suspensions,      \* how often is_suspended was set
  session,          \* refresh_tokens: the row of each token, and how many
                    \* password writes and suspensions its INSERT came after
  link,             \* password_resets: "unsent", "open", "used" or "expired"
  call,             \* the requests in flight
  spared            \* sessions whose revocation failed, or that a reset's
                    \* UPDATE came too early for (for the properties)

vars == <<exists, passwords, suspended, suspensions, session, link, call, spared>>

NoSession == [state |-> "none", passwords |-> 0, suspensions |-> 0]
Idle == [kind |-> "idle"]

Live(t) == session[t].state = "live"

(* A handler and how far it is: "login", "change" and "delete" have read the *)
(* user's row, "revoke" and "suspend" have written it, "reset" has locked    *)
(* its link, "written" has made its updates, of the user's row and of the    *)
(* sessions `revoked`, but not committed them.  Nothing that was read is     *)
(* looked at again.                                                          *)
Handlers == [kind : {"idle", "login", "change", "delete", "suspend", "revoke"}]
            \cup [kind : {"reset"}, link : Links]
            \cup [kind : {"written"}, link : Links, revoked : SUBSET Tokens]

(* c's transaction holds the link l. *)
Holds(c, l) == call[c].kind \in {"reset", "written"} /\ call[c].link = l

(* No reset has updated the row of the user: another UPDATE or DELETE of it  *)
(* waits for the COMMIT, an INSERT of a session that refers to it does not.  *)
UserFree == \A c \in Calls : call[c].kind # "written"

SessionsTypeOK ==
  /\ exists \in BOOLEAN /\ suspended \in BOOLEAN
  /\ passwords \in Seq({"signup", "change"} \cup Links)
  /\ Len(passwords) \in 1..MaxPasswords
  /\ suspensions \in 0..MaxSuspensions
  /\ session \in [Tokens -> [state : {"none", "live", "revoked"},
                             passwords : 0..MaxPasswords, suspensions : 0..MaxSuspensions]]
  /\ link \in [Links -> {"unsent", "open", "used", "expired"}]
  /\ call \in [Calls -> Handlers]
  /\ spared \subseteq Tokens

Init ==
  /\ exists = TRUE /\ suspended = FALSE /\ suspensions = 0
  /\ passwords = <<"signup">>
  /\ session = [t \in Tokens |-> NoSession]
  /\ link = [l \in Links |-> "unsent"]
  /\ call = [c \in Calls |-> Idle]
  /\ spared = {}

-----------------------------------------------------------------------------
Becomes(c, handler) == call' = [call EXCEPT ![c] = handler] /\ UNCHANGED spared

Revoked(row) == IF row.state = "live" THEN [row EXCEPT !.state = "revoked"] ELSE row

(* The mutant: the UPDATE of refresh_tokens is forgotten. *)
NoneRevoked == session

AllRevoked == [t \in Tokens |-> Revoked(session[t])]

SetPassword(writer) ==
  /\ Len(passwords) < MaxPasswords
  /\ passwords' = Append(passwords, writer)

(* The row of the user as a login, a change or a deletion reads it; its      *)
(* bcrypt.compare follows outside of any transaction.  A suspended user is   *)
(* refused a login on what this read said.                                   *)
ReadUser(c, kind) ==
  /\ exists
  /\ call[c] = Idle
  /\ kind = "login" => ~suspended
  /\ Becomes(c, [kind |-> kind])
  /\ UNCHANGED <<exists, passwords, suspended, suspensions, session, link>>

(* The login's INSERT.  Without the user's row the foreign key refuses it. *)
Login(c, t) ==
  /\ call[c].kind = "login"
  /\ session[t].state = "none"
  /\ session' = IF exists
                THEN [session EXCEPT ![t] = [state |-> "live", passwords |-> Len(passwords),
                                             suspensions |-> suspensions]]
                ELSE session
  /\ Becomes(c, Idle)
  /\ UNCHANGED <<exists, passwords, suspended, suspensions, link>>

Logout(t) ==
  /\ Live(t)
  /\ session' = [session EXCEPT ![t] = Revoked(@)]
  /\ UNCHANGED <<exists, passwords, suspended, suspensions, link, call, spared>>

ChangePassword(c) ==
  /\ call[c].kind = "change"
  /\ UserFree
  /\ IF exists
     THEN SetPassword("change")
     ELSE UNCHANGED passwords
  /\ Becomes(c, [kind |-> "revoke"])
  /\ UNCHANGED <<exists, suspended, suspensions, session, link>>

Suspend(c) ==
  /\ exists /\ UserFree
  /\ call[c] = Idle
  /\ suspensions < MaxSuspensions
  /\ suspended' = TRUE
  /\ suspensions' = suspensions + 1
  /\ Becomes(c, [kind |-> "suspend"])
  /\ UNCHANGED <<exists, passwords, session, link>>

(* The second query of a password change and of a suspension.  It revokes    *)
(* what it finds when it starts, also where it then waits for a reset that   *)
(* has updated the same rows.                                                *)
RevokeSessions(c) ==
  /\ call[c].kind \in {"revoke", "suspend"}
  /\ session' = AllRevoked
  /\ Becomes(c, Idle)
  /\ UNCHANGED <<exists, passwords, suspended, suspensions, link>>

Unsuspend ==
  /\ exists /\ suspended /\ UserFree
  /\ suspended' = FALSE
  /\ UNCHANGED <<exists, passwords, suspensions, session, link, call, spared>>

ForgotPassword(l) ==
  /\ exists
  /\ link[l] = "unsent"
  /\ link' = [link EXCEPT ![l] = "open"]
  /\ UNCHANGED <<exists, passwords, suspended, suspensions, session, call, spared>>

ExpireLink(l) ==
  /\ link[l] = "open"
  /\ link' = [link EXCEPT ![l] = "expired"]
  /\ UNCHANGED <<exists, passwords, suspended, suspensions, session, call, spared>>

(* The mutant: the SELECT without FOR UPDATE. *)
UsableUnlocked(l) == link[l] = "open"

(* SELECT ... FOR UPDATE on the reset's row: it waits for the transaction    *)
(* that holds the row, and then judges the row anew.                         *)
Usable(l) ==
  /\ link[l] = "open"
  /\ \A c \in Calls : ~Holds(c, l)

BeginReset(c, l) ==
  /\ call[c] = Idle
  /\ exists
  /\ Usable(l)
  /\ Becomes(c, [kind |-> "reset", link |-> l])
  /\ UNCHANGED <<exists, passwords, suspended, suspensions, session, link>>

(* The three UPDATEs, which nobody else sees.  The last one finds the        *)
(* sessions there are now.                                                   *)
WriteReset(c) ==
  /\ call[c].kind = "reset"
  /\ UserFree
  /\ Becomes(c, [kind |-> "written", link |-> call[c].link, revoked |-> {t \in Tokens : Live(t)}])
  /\ UNCHANGED <<exists, passwords, suspended, suspensions, session, link>>

(* COMMIT: the password, the link and those sessions at once; a login may    *)
(* have inserted another one meanwhile.  The link may have expired since it  *)
(* was locked: nothing looks again.                                          *)
CommitReset(c) ==
  /\ call[c].kind = "written"
  /\ SetPassword(call[c].link)
  /\ link' = [link EXCEPT ![call[c].link] = "used"]
  /\ session' = [t \in Tokens |-> IF t \in call[c].revoked THEN Revoked(session[t]) ELSE session[t]]
  /\ spared' = spared \cup {t \in Tokens \ call[c].revoked : Live(t)}
  /\ call' = [call EXCEPT ![c] = Idle]
  /\ UNCHANGED <<exists, suspended, suspensions>>

(* DELETE FROM users, which waits for a transaction that has locked one of   *)
(* the rows it cascades to.  The two can deadlock, a reset wanting the row   *)
(* of the user in turn: the database then fails one of them.                 *)
DeleteAccount(c) ==
  /\ call[c].kind = "delete"
  /\ \A d \in Calls, l \in Links : ~Holds(d, l)
  /\ exists' = FALSE
  /\ suspended' = FALSE
  /\ session' = [t \in Tokens |-> Revoked(session[t])]      \* the row is gone
  /\ link' = [l \in Links |-> IF link[l] = "open" THEN "expired" ELSE link[l]]
  /\ Becomes(c, Idle)
  /\ UNCHANGED <<passwords, suspensions>>

(* A query fails, or the process stops: the request ends where it stands,    *)
(* and a transaction rolls back.                                             *)
Fail(c) ==
  /\ call[c] # Idle
  /\ call' = [call EXCEPT ![c] = Idle]
  /\ spared' = IF call[c].kind \in {"revoke", "suspend"}
               THEN spared \cup {t \in Tokens : Live(t)} ELSE spared
  /\ UNCHANGED <<exists, passwords, suspended, suspensions, session, link>>

Next ==
  \/ \E c \in Calls : \/ \E kind \in {"login", "change", "delete"} : ReadUser(c, kind)
                      \/ \E t \in Tokens : Login(c, t)
                      \/ ChangePassword(c) \/ Suspend(c) \/ RevokeSessions(c)
                      \/ \E l \in Links : BeginReset(c, l)
                      \/ WriteReset(c) \/ CommitReset(c) \/ DeleteAccount(c) \/ Fail(c)
  \/ \E t \in Tokens : Logout(t)
  \/ \E l \in Links : ForgotPassword(l) \/ ExpireLink(l)
  \/ Unsuspend

Spec == Init /\ [][Next]_vars

-----------------------------------------------------------------------------
(* A reset link sets the password once, however many requests carry it:      *)
(* the row lock of reset-password holds while bcrypt hashes.                 *)
LinkSetsPasswordOnce ==
  \A l \in Links : Cardinality({i \in DOMAIN passwords : passwords[i] = l}) <= 1

(* A session that was inserted before the present password was committed is  *)
(* live only while a password change stands between its two queries, where   *)
(* that second query failed (account.js:55 has "every existing session"      *)
(* end), or where a login inserted it between a reset's last UPDATE and its  *)
(* COMMIT.  (One that a login in flight inserts afterwards counts as newer,  *)
(* also if the login has checked the password of before.)                    *)
OldPasswordsSessionsEnd ==
  \A t \in Tokens \ spared : Live(t) /\ session[t].passwords < Len(passwords) =>
    \E c \in Calls : call[c].kind = "revoke"

(* A session from before a suspension does not outlive it, also when the     *)
(* user is unsuspended meanwhile: it is live only until the suspension's     *)
(* second query, or where that one failed.  (One that a login in flight      *)
(* inserts after the suspension stays live: it is not from before.)          *)
SuspensionEndsSessions ==
  \A t \in Tokens \ spared : Live(t) /\ session[t].suspensions < suspensions =>
    \E c \in Calls : call[c].kind = "suspend"
=============================================================================
