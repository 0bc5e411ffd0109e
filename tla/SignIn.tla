-------------------------------- MODULE SignIn --------------------------------
(***************************************************************************)
(* Accounts, sign-in with password, two-factor and recovery codes,         *)
(* passkeys, sessions and the password reset of the host.  A request is    *)
(* cut where the handler awaits the database or the password hash;         *)
(* requests overlap freely in the one API process.                         *)
(***************************************************************************)
EXTENDS Integers, FiniteSets

CONSTANTS
    Accounts, Codes, Attempts, Sessions,
    MaxAuthSteps    \* requests

\* codes, accounts and requests are told apart
ASSUME SignInAssumption ==
    /\ Codes \cap (Accounts \cup Attempts) = {} /\ "none" \notin Accounts
    /\ MaxAuthSteps \in Nat

VARIABLES
    account,    \* the users rows
    session,    \* the sessions rows, with the password they were opened with
    attempt,    \* requests in progress, each with the row it read
    reset,      \* yeah reset-password on the host
    challenge,  \* WebAuthn challenges in memory: per user for a registration, per attempt for a sign-in
    passkey,    \* accounts that have a passkey
    spent,      \* history: how often each recovery code and each challenge was accepted
    overlapped, \* history: two requests that change the same account were in progress at once
    authSteps   \* requests so far

authVars == <<account, session, attempt, reset, challenge, passkey, spent, overlapped, authSteps>>

NoAccount == [exists |-> FALSE, pw |-> 0, totp |-> "off", codes |-> {}]
NoSession == [user |-> "none", pw |-> 0, late |-> FALSE]
NoAttempt == [pc |-> "rest", user |-> "none", row |-> NoAccount, code |-> "none"]
NoReset == [pc |-> "rest", user |-> "none"]
Keys == Accounts \cup Attempts

AuthTypeOK ==
    /\ \A u \in Accounts : account[u].exists \in BOOLEAN /\ account[u].pw \in 0 .. 2 /\ account[u].totp \in {"off", "setup", "on"} /\ account[u].codes \subseteq Codes
    /\ \A s \in Sessions : session[s].user \in Accounts \cup {"none"}
    /\ \A l \in Attempts : attempt[l].pc \in {"rest", "verify", "factor", "register", "session", "passkey"} /\ attempt[l].user \in Accounts \cup {"none"}
    /\ reset.pc \in {"rest", "password", "sessions"}
    /\ challenge \subseteq Keys
    /\ passkey \subseteq Accounts
    /\ overlapped \in BOOLEAN /\ authSteps \in 0 .. MaxAuthSteps

SignedIn(u) == \E s \in Sessions : session[s].user = u
Someone == \E u \in Accounts : account[u].exists
Busy(l) == \E k \in Attempts \ {l} : attempt[k].pc # "rest"
AuthStep == authSteps < MaxAuthSteps /\ authSteps' = authSteps + 1
Sets(l, pc) == attempt' = [attempt EXCEPT ![l].pc = pc]
Ends(l) == attempt' = [attempt EXCEPT ![l] = NoAttempt]

----------------------------------------------------------------------------
(* The first account                                                       *)

\* hasAnyUser, and the e-mail is not taken: then the password is hashed
BeginRegister(l, u) ==
    /\ AuthStep
    /\ attempt[l] = NoAttempt /\ ~Someone
    /\ attempt' = [attempt EXCEPT ![l] = [NoAttempt EXCEPT !.pc = "register", !.user = u]]
    /\ overlapped' = (overlapped \/ Busy(l))
    /\ UNCHANGED <<account, session, reset, challenge, passkey, spent>>

\* the insert fails when the e-mail was taken in between
Register(l) ==
    /\ attempt[l].pc = "register"
    /\ IF account[attempt[l].user].exists
       THEN Ends(l) /\ UNCHANGED account
       ELSE /\ account' = [account EXCEPT ![attempt[l].user] = [NoAccount EXCEPT !.exists = TRUE]]
            /\ attempt' = [attempt EXCEPT ![l].pc = "session", ![l].row = account'[attempt[l].user]]
    /\ UNCHANGED <<session, reset, challenge, passkey, spent, overlapped, authSteps>>

----------------------------------------------------------------------------
(* Sign-in                                                                 *)

\* the row is read; a wrong password ends the request there
BeginLogin(l, u, code) ==
    /\ AuthStep
    /\ attempt[l] = NoAttempt /\ account[u].exists
    /\ attempt' = [attempt EXCEPT ![l] = [pc |-> "verify", user |-> u, row |-> account[u], code |-> code]]
    /\ overlapped' = (overlapped \/ Busy(l) \/ reset.pc # "rest")
    /\ UNCHANGED <<account, session, reset, challenge, passkey, spent>>

VerifyPassword(l) ==
    /\ attempt[l].pc = "verify"
    /\ Sets(l, IF attempt[l].row.totp = "on" THEN "factor" ELSE "session")
    /\ UNCHANGED <<account, session, reset, challenge, passkey, spent, overlapped, authSteps>>

\* mutant: the recovery code is looked up and kept
checkSecondFactorKeepsCode(l) ==
    /\ attempt[l].pc = "factor"
    /\ \/ attempt[l].code = "totp" /\ Sets(l, "session") /\ UNCHANGED spent
       \/ attempt[l].code \in attempt[l].row.codes /\ Sets(l, "session") /\ spent' = [spent EXCEPT ![attempt[l].code] = @ + 1]
       \/ attempt[l].code \notin attempt[l].row.codes \cup {"totp"} /\ Ends(l) /\ UNCHANGED spent
    /\ UNCHANGED <<account, session, reset, challenge, passkey, overlapped, authSteps>>

\* a code of the authenticator, or a recovery code of the row that was read:
\* what is left of that row's codes is written back
checkSecondFactor(l) ==
    /\ attempt[l].pc = "factor"
    /\ LET row == attempt[l].row  code == attempt[l].code IN
       \/ code = "totp" /\ Sets(l, "session") /\ UNCHANGED <<account, spent>>
       \/ /\ code \in row.codes
          /\ account' = [account EXCEPT ![attempt[l].user].codes = row.codes \ {code}]
          /\ spent' = [spent EXCEPT ![code] = @ + 1] /\ Sets(l, "session")
       \/ code \notin row.codes \cup {"totp"} /\ Ends(l) /\ UNCHANGED <<account, spent>>
    /\ UNCHANGED <<session, reset, challenge, passkey, overlapped, authSteps>>

createSession(l, s) ==
    /\ attempt[l].pc = "session" /\ session[s] = NoSession
    /\ LET u == attempt[l].user  pw == attempt[l].row.pw IN
       session' = [session EXCEPT ![s] = [user |-> u, pw |-> pw, late |-> pw # account[u].pw]]
    /\ Ends(l)
    /\ UNCHANGED <<account, reset, challenge, passkey, spent, overlapped, authSteps>>

\* logout, or the thirty days are over
destroySession(s) ==
    /\ session[s] # NoSession /\ session' = [session EXCEPT ![s] = NoSession]
    /\ UNCHANGED <<account, attempt, reset, challenge, passkey, spent, overlapped, authSteps>>

----------------------------------------------------------------------------
(* Two-factor authentication                                               *)

SetupTwoFactor(u) ==
    /\ AuthStep /\ SignedIn(u) /\ account[u].totp # "on"
    /\ account' = [account EXCEPT ![u].totp = "setup"]
    /\ UNCHANGED <<session, attempt, reset, challenge, passkey, spent, overlapped>>

EnableTwoFactor(u) ==
    /\ AuthStep /\ SignedIn(u) /\ account[u].totp = "setup"
    /\ account' = [account EXCEPT ![u].totp = "on", ![u].codes = Codes]
    /\ spent' = [c \in DOMAIN spent |-> IF c \in Codes THEN 0 ELSE spent[c]]
    /\ overlapped' = (overlapped \/ \E l \in Attempts : attempt[l].user = u)
    /\ UNCHANGED <<session, attempt, reset, challenge, passkey>>

DisableTwoFactor(u) ==
    /\ AuthStep /\ SignedIn(u) /\ account[u].totp = "on"
    /\ account' = [account EXCEPT ![u].totp = "off", ![u].codes = {}]
    /\ overlapped' = (overlapped \/ \E l \in Attempts : attempt[l].user = u)
    /\ UNCHANGED <<session, attempt, reset, challenge, passkey, spent>>

----------------------------------------------------------------------------
(* The reset of a password on the host                                     *)

BeginReset(u) ==
    /\ AuthStep /\ reset = NoReset /\ account[u].exists /\ account[u].pw < 2
    /\ reset' = [pc |-> "password", user |-> u]
    /\ overlapped' = (overlapped \/ \E l \in Attempts : attempt[l].pc # "rest")
    /\ UNCHANGED <<account, session, attempt, challenge, passkey, spent>>

WritePassword(disable2fa) ==
    /\ reset.pc = "password"
    /\ account' = [account EXCEPT ![reset.user].pw = @ + 1,
                                  ![reset.user].totp = IF disable2fa THEN "off" ELSE @,
                                  ![reset.user].codes = IF disable2fa THEN {} ELSE @]
    /\ reset' = [reset EXCEPT !.pc = "sessions"]
    /\ UNCHANGED <<session, attempt, challenge, passkey, spent, overlapped, authSteps>>

\* mutant: the sessions stay
EndSessionsKept ==
    /\ reset.pc = "sessions" /\ reset' = NoReset
    /\ UNCHANGED <<account, session, attempt, challenge, passkey, spent, overlapped, authSteps>>

EndSessions ==
    /\ reset.pc = "sessions" /\ reset' = NoReset
    /\ session' = [s \in Sessions |-> IF session[s].user = reset.user THEN NoSession ELSE session[s]]
    /\ UNCHANGED <<account, attempt, challenge, passkey, spent, overlapped, authSteps>>

----------------------------------------------------------------------------
(* Passkeys: a challenge is put in memory, and taken by the answer to it   *)

put(k) == challenge' = challenge \cup {k}

\* mutant: the challenge stays in the map
takeKeeps(k) == k \in challenge /\ UNCHANGED challenge
take(k) == k \in challenge /\ challenge' = challenge \ {k}

\* the five minutes of a challenge are over, or the API restarted
ChallengeExpires(k) ==
    /\ take(k)
    /\ UNCHANGED <<account, session, attempt, reset, passkey, spent, overlapped, authSteps>>

PasskeyOptions(u) ==
    /\ AuthStep /\ SignedIn(u) /\ put(u) /\ spent' = [spent EXCEPT ![u] = 0]
    /\ UNCHANGED <<account, session, attempt, reset, passkey, overlapped>>

AddPasskey(u) ==
    /\ AuthStep /\ SignedIn(u) /\ take(u)
    /\ passkey' = passkey \cup {u} /\ spent' = [spent EXCEPT ![u] = @ + 1]
    /\ UNCHANGED <<account, session, attempt, reset, overlapped>>

RemovePasskey(u) ==
    /\ AuthStep /\ SignedIn(u) /\ u \in passkey /\ passkey' = passkey \ {u}
    /\ UNCHANGED <<account, session, attempt, reset, challenge, spent, overlapped>>

PasskeyLoginOptions(l) ==
    /\ AuthStep
    /\ attempt[l] = NoAttempt /\ put(l) /\ spent' = [spent EXCEPT ![l] = 0]
    /\ UNCHANGED <<account, session, attempt, reset, passkey, overlapped>>

\* the challenge is taken first, whatever comes of the answer
PasskeyLogin(l, u) ==
    /\ AuthStep
    /\ attempt[l] = NoAttempt /\ take(l)
    /\ spent' = [spent EXCEPT ![l] = @ + 1]
    /\ attempt' = IF u \in passkey /\ account[u].exists
                  THEN [attempt EXCEPT ![l] = [pc |-> "session", user |-> u, row |-> account[u], code |-> "none"]]
                  ELSE attempt
    /\ overlapped' = (overlapped \/ Busy(l) \/ reset.pc # "rest")
    /\ UNCHANGED <<account, session, reset, passkey>>

----------------------------------------------------------------------------

AuthInit ==
    /\ \/ account = [u \in Accounts |-> NoAccount]
       \/ \E u \in Accounts : account = [[v \in Accounts |-> NoAccount] EXCEPT ![u] = [exists |-> TRUE, pw |-> 0, totp |-> "on", codes |-> Codes]]
    /\ session = [s \in Sessions |-> NoSession] /\ attempt = [l \in Attempts |-> NoAttempt]
    /\ reset = NoReset /\ challenge = {} /\ passkey = {}
    /\ spent = [c \in Codes \cup Keys |-> 0] /\ overlapped = FALSE /\ authSteps = 0

AuthNext ==
    \/ EndSessions
    \/ \E l \in Attempts :
          \/ \E u \in Accounts : BeginRegister(l, u) \/ PasskeyLogin(l, u)
          \/ \E u \in Accounts, code \in Codes \cup {"totp", "wrong"} : BeginLogin(l, u, code)
          \/ Register(l) \/ VerifyPassword(l) \/ checkSecondFactor(l) \/ PasskeyLoginOptions(l)
          \/ \E s \in Sessions : createSession(l, s)
    \/ \E s \in Sessions : destroySession(s)
    \/ \E u \in Accounts : SetupTwoFactor(u) \/ EnableTwoFactor(u) \/ DisableTwoFactor(u) \/ BeginReset(u)
                              \/ PasskeyOptions(u) \/ AddPasskey(u) \/ RemovePasskey(u)
    \/ \E disable2fa \in BOOLEAN : WritePassword(disable2fa)
    \/ \E k \in Keys : ChallengeExpires(k)

AuthSpec == AuthInit /\ [][AuthNext]_authVars

----------------------------------------------------------------------------
(* Properties                                                              *)

\* A WebAuthn challenge is answered at most once, and, as long as requests on
\* the account do not overlap, a recovery code lets its owner in once
\* (webauthnChallenges.ts take, auth.ts checkSecondFactor).
CredentialsSpendOnce ==
    /\ \A k \in Keys : spent[k] <= 1
    /\ \A c \in Codes : ~overlapped => spent[c] <= 1

\* Once a reset is over nobody stays signed in with the old password, but for
\* a sign-in that had read the account before it (passwordReset.ts).
ResetSignsOut == \A s \in Sessions :
    session[s] # NoSession /\ session[s].pw # account[session[s].user].pw => session[s].late \/ reset.pc = "sessions"

\* Registrations that do not overlap make one account (auth.ts hasAnyUser).
SingleAdmin == ~overlapped => Cardinality({u \in Accounts : account[u].exists}) <= 1

AccessSound == CredentialsSpendOnce /\ ResetSignsOut /\ SingleAdmin

==============================================================================
