----------------------------- MODULE LocalAuth -----------------------------
(***************************************************************************)
(* The local account of the one owner: registration, login, change of      *)
(* credentials, recovery codes, and the sessions they open                 *)
(* (alexandria-core/src/auth/local.rs and auth/commands/).                 *)
(*                                                                         *)
(* A handler is a sequence of statements against three tables that share   *)
(* no transaction; every statement is an action, so that calls interleave  *)
(* between them, any statement may fail, and the process may stop there.   *)
(* A call that is refused writes nothing and is a stuttering step.         *)
(***************************************************************************)
EXTENDS Integers, FiniteSets

CONSTANTS
  Clients,        \* concurrent callers of the handlers
  Passwords,      \* passwords a caller may submit
  StrongPasswords,\* the ones validate_strength accepts
  Modes,          \* auth.mode values a start of the process may choose
  CodeCount,      \* RECOVERY_CODE_COUNT
  SessionTtl,     \* session_ttl_hours
  MaxTime,        \* bound on the clock
  MaxSets,        \* bound on the sets of codes generated
  MaxSessions     \* bound on the sessions issued

ASSUME AuthAssumption ==
  /\ StrongPasswords \subseteq Passwords
  /\ Modes \subseteq {"local", "windows", "external"} /\ Modes # {}
  /\ CodeCount \in Nat \ {0} /\ SessionTtl \in Nat \ {0}
  /\ MaxTime \in Nat /\ MaxSets \in Nat /\ MaxSessions \in Nat

NoAccount == "no account"
Idle == [verb |-> "idle", at |-> "idle", pw |-> NoAccount, code |-> <<0, 0>>,
         since |-> 0, crossed |-> FALSE]

VARIABLES
  mode,           \* AuthSettings.mode of this start
  credential,     \* local_login_credentials: the password, or NoAccount
  sessions,       \* the sessions table
  codes,          \* recovery_codes: the issued codes, spent or not
  job,            \* the call each client has in flight
  wallClock,      \* SystemClock, in hours
  setsIssued,     \* generations of codes so far (a code is <<set, number>>)
  \* the rest only records history, for the properties
  resets,         \* passwords written by redemptions
  cutShort,       \* a redemption wrote its password and never reached delete_all
  nextSession,    \* sessions issued so far
  registrations,  \* insert_if_absent calls that created the row
  lostCodes       \* a registration whose replace_all was never reached

tables == <<credential, sessions, codes>>
history == <<resets, cutShort, nextSession, registrations, lostCodes>>
authVars == <<mode, credential, sessions, codes, job, wallClock, setsIssued,
              history>>

Codes == (0..MaxSets) \X (0..CodeCount)
CodeSet(n) == {<<n, i>> : i \in 1..CodeCount}
Statements == {"insert", "codes", "session", "consume", "password",
               "sessions", "write"}

JobTypes == [verb : {"idle", "register", "login", "redeem", "regenerate", "set"},
             at : Statements \cup {"idle"}, pw : Passwords \cup {NoAccount},
             code : Codes, since : Nat, crossed : BOOLEAN]
SessionTypes == [id : 1..MaxSessions, expires : Nat, since : Nat, crossed : BOOLEAN]

AuthTypeOK ==
  /\ mode \in Modes
  /\ credential \in Passwords \cup {NoAccount}
  /\ sessions \subseteq SessionTypes
  /\ \A k \in DOMAIN codes : k \in Codes /\ codes[k] \in {"unspent", "spent"}
  /\ job \in [Clients -> JobTypes]
  /\ wallClock \in 0..MaxTime /\ setsIssued \in 0..MaxSets
  /\ resets \in Nat /\ cutShort \in BOOLEAN /\ nextSession \in 0..MaxSessions
  /\ registrations \in Nat /\ lostCodes \in BOOLEAN

AuthInit ==
  /\ mode \in Modes
  /\ credential = NoAccount /\ sessions = {} /\ codes = << >>
  /\ job = [c \in Clients |-> Idle]
  /\ wallClock = 0 /\ setsIssued = 0
  /\ resets = 0 /\ cutShort = FALSE
  /\ nextSession = 0 /\ registrations = 0 /\ lostCodes = FALSE

----------------------------------------------------------------------------
(* Helpers of the handlers.                                                *)

\* SessionRepository::is_valid, behind LocalAuthService::authenticate
Authentic(id) == \E s \in sessions : s.id = id /\ wallClock < s.expires

\* RuntimeAuthService: Heimdall's answer in external mode is not modelled here
Authenticated(id) == mode \in {"local", "windows"} => Authentic(id)

\* validate_email, validate_strength and the confirmation
Acceptable(pw, confirmation) == pw \in StrongPasswords /\ pw = confirmation

\* a call enters its first statement; Advance takes it to the next
Goto(c, verb, at, pw, code) ==
  job' = [job EXCEPT ![c] = [verb |-> verb, at |-> at, pw |-> pw, code |-> code,
                             since |-> resets, crossed |-> FALSE]]
Advance(c, at) == job' = [job EXCEPT ![c].at = at]
Done(c) == job' = [job EXCEPT ![c] = Idle]

At(c, verb, at) == job[c].verb = verb /\ job[c].at = at

\* issue_session: the session is stamped with the clock at the write
NewSession(since, crossed) ==
  /\ nextSession < MaxSessions
  /\ nextSession' = nextSession + 1
  /\ sessions' = sessions \cup
       {[id |-> nextSession + 1, expires |-> wallClock + SessionTtl,
         since |-> since, crossed |-> crossed]}

\* RecoveryCodeRepository::replace_all, one write transaction
ReplaceCodes ==
  /\ setsIssued < MaxSets
  /\ setsIssued' = setsIssued + 1
  /\ codes' = [k \in CodeSet(setsIssued + 1) |-> "unspent"]

----------------------------------------------------------------------------
(* RegisterLocalAccountHandler::register                                   *)

RegisterCheck(c, pw, confirmation) ==
  /\ job[c] = Idle /\ mode = "local" /\ credential = NoAccount
  /\ Acceptable(pw, confirmation)
  /\ Goto(c, "register", "insert", pw, <<0, 0>>)
  /\ UNCHANGED <<mode, tables, wallClock, setsIssued, history>>

\* insert_if_absent is the authoritative check
RegisterInsert(c) ==
  /\ At(c, "register", "insert")
  /\ IF credential = NoAccount
     THEN /\ credential' = job[c].pw
          /\ registrations' = registrations + 1
          /\ Advance(c, "codes")
     ELSE Done(c) /\ UNCHANGED <<credential, registrations>>
  /\ UNCHANGED <<mode, sessions, codes, wallClock, setsIssued, resets,
                 cutShort, nextSession, lostCodes>>

RegisterSkipsCodes(c) ==
  /\ At(c, "register", "codes")
  /\ Advance(c, "session")
  /\ UNCHANGED <<mode, tables, wallClock, setsIssued, history>>

RegisterCodes(c) ==
  /\ At(c, "register", "codes")
  /\ ReplaceCodes
  /\ Advance(c, "session")
  /\ UNCHANGED <<mode, credential, sessions, wallClock, history>>

(* LocalLoginHandler::login: the password is verified against a row read    *)
(* before, and the session is written after.                               *)
LoginVerify(c, pw) ==
  /\ job[c] = Idle /\ mode = "local"
  /\ credential # NoAccount /\ credential = pw
  /\ Goto(c, "login", "session", pw, <<0, 0>>)
  /\ UNCHANGED <<mode, tables, wallClock, setsIssued, history>>

\* the last statement of register and of login
OpenSession(c) ==
  /\ job[c].verb \in {"register", "login"} /\ job[c].at = "session"
  /\ NewSession(job[c].since, job[c].crossed)
  /\ Done(c)
  /\ UNCHANGED <<mode, credential, codes, wallClock, setsIssued, resets,
                 cutShort, registrations, lostCodes>>

(* WindowsLoginHandler::login: one statement, no credential.               *)
WindowsLogin(c) ==
  /\ job[c] = Idle /\ mode = "windows"
  /\ NewSession(resets, FALSE)
  /\ UNCHANGED <<mode, credential, codes, job, wallClock, setsIssued,
                 resets, cutShort, registrations, lostCodes>>

----------------------------------------------------------------------------
(* SetLocalCredentialsHandler::set                                         *)

SetCheck(c, id, pw) ==
  /\ job[c] = Idle /\ mode = "local"
  /\ Authenticated(id) /\ Acceptable(pw, pw)
  /\ Goto(c, "set", "write", pw, <<0, 0>>)
  /\ UNCHANGED <<mode, tables, wallClock, setsIssued, history>>

SetWrite(c) ==
  /\ At(c, "set", "write")
  /\ credential' = job[c].pw
  /\ Done(c)
  /\ UNCHANGED <<mode, sessions, codes, wallClock, setsIssued, history>>

(* RegenerateRecoveryCodesHandler::regenerate. The account is never        *)
(* deleted, so its check may be taken with the authentication.             *)
RegenerateCheck(c, id) ==
  /\ job[c] = Idle
  /\ Authenticated(id) /\ mode = "local" /\ credential # NoAccount
  /\ Goto(c, "regenerate", "codes", NoAccount, <<0, 0>>)
  /\ UNCHANGED <<mode, tables, wallClock, setsIssued, history>>

RegenerateCodes(c) ==
  /\ At(c, "regenerate", "codes")
  /\ ReplaceCodes
  /\ Done(c)
  /\ UNCHANGED <<mode, credential, sessions, wallClock, history>>

----------------------------------------------------------------------------
(* RedeemRecoveryCodeHandler::redeem                                       *)

RedeemInAnyMode(c, code, pw, confirmation) ==
  /\ job[c] = Idle /\ credential # NoAccount
  /\ Acceptable(pw, confirmation)
  /\ Goto(c, "redeem", "consume", pw, code)
  /\ UNCHANGED <<mode, tables, wallClock, setsIssued, history>>

RedeemCheck(c, code, pw, confirmation) ==
  /\ job[c] = Idle /\ mode = "local" /\ credential # NoAccount
  /\ Acceptable(pw, confirmation)
  /\ Goto(c, "redeem", "consume", pw, code)
  /\ UNCHANGED <<mode, tables, wallClock, setsIssued, history>>

RedeemConsumesBlindly(c) ==
  /\ At(c, "redeem", "consume")
  /\ IF job[c].code \in DOMAIN codes
     THEN codes' = [codes EXCEPT ![job[c].code] = "spent"] /\ Advance(c, "password")
     ELSE Done(c) /\ UNCHANGED codes
  /\ UNCHANGED <<mode, credential, sessions, wallClock, setsIssued, history>>

\* consume: UPDATE ... WHERE consumed_at IS NULL; the read that tells a spent
\* code from an unknown one changes nothing
RedeemConsume(c) ==
  /\ At(c, "redeem", "consume")
  /\ LET code == job[c].code
         unspent == code \in DOMAIN codes /\ codes[code] = "unspent"
     IN IF unspent
        THEN codes' = [codes EXCEPT ![code] = "spent"] /\ Advance(c, "password")
        ELSE Done(c) /\ UNCHANGED codes
  /\ UNCHANGED <<mode, credential, sessions, wallClock, setsIssued, history>>

RedeemPassword(c) ==
  /\ At(c, "redeem", "password")
  /\ credential' = job[c].pw
  /\ resets' = resets + 1
  /\ Advance(c, "sessions")
  /\ UNCHANGED <<mode, sessions, codes, wallClock, setsIssued, cutShort,
                 nextSession, registrations, lostCodes>>

RedeemKeepsSessions(c) ==
  /\ At(c, "redeem", "sessions")
  /\ Done(c)
  /\ UNCHANGED <<mode, tables, wallClock, setsIssued, history>>

RedeemSessions(c) ==
  /\ At(c, "redeem", "sessions")
  /\ sessions' = {}
  /\ job' = [d \in Clients |-> IF d = c \/ job[d] = Idle THEN Idle
                              ELSE [job[d] EXCEPT !.crossed = TRUE]]
  /\ UNCHANGED <<mode, credential, codes, wallClock, setsIssued, history>>

----------------------------------------------------------------------------
(* A statement fails, the process restarts, time passes.                   *)

LosesCodes(c) == At(c, "register", "codes")
CutsShort(c) == At(c, "redeem", "sessions")

StatementFails(c) ==
  /\ job[c] # Idle
  /\ Done(c)
  /\ lostCodes' = (lostCodes \/ LosesCodes(c))
  /\ cutShort' = (cutShort \/ CutsShort(c))
  /\ UNCHANGED <<mode, tables, wallClock, setsIssued, resets, nextSession,
                 registrations>>

AuthRestart ==
  /\ mode' \in Modes
  /\ job' = [c \in Clients |-> Idle]
  /\ lostCodes' = (lostCodes \/ \E c \in Clients : LosesCodes(c))
  /\ cutShort' = (cutShort \/ \E c \in Clients : CutsShort(c))
  /\ UNCHANGED <<tables, wallClock, setsIssued, resets, nextSession,
                 registrations>>

Tick ==
  /\ wallClock < MaxTime
  /\ wallClock' = wallClock + 1
  /\ UNCHANGED <<mode, tables, job, setsIssued, history>>

Call(c) ==
  \/ \E pw, confirmation \in Passwords :
       \/ RegisterCheck(c, pw, confirmation)
       \/ \E code \in Codes : RedeemCheck(c, code, pw, confirmation)
  \/ \E pw \in Passwords : LoginVerify(c, pw)
  \/ WindowsLogin(c)
  \/ \E id \in 1..MaxSessions :
       \/ \E pw \in Passwords : SetCheck(c, id, pw)
       \/ RegenerateCheck(c, id)

Statement(c) ==
  \/ RegisterInsert(c) \/ RegisterCodes(c) \/ OpenSession(c)
  \/ SetWrite(c) \/ RegenerateCodes(c)
  \/ RedeemConsume(c) \/ RedeemPassword(c) \/ RedeemSessions(c)

AuthNext ==
  \/ \E c \in Clients : Call(c) \/ Statement(c) \/ StatementFails(c)
  \/ AuthRestart
  \/ Tick

AuthSpec == AuthInit /\ [][AuthNext]_authVars

----------------------------------------------------------------------------
(* Properties.                                                             *)

\* Two redemptions never both get past the same code, and a redemption that
\* did finds its code spent or replaced by a newer set (local.rs, consume).
CodeBuysOneRedemption ==
  \A c \in Clients : At(c, "redeem", "password") \/ At(c, "redeem", "sessions") =>
    /\ job[c].code \in DOMAIN codes => codes[job[c].code] = "spent"
    /\ \A d \in Clients \ {c} :
         At(d, "redeem", "password") \/ At(d, "redeem", "sessions") =>
           job[d].code # job[c].code

\* A registered account has its recovery codes unless the registration is
\* still writing them or stopped before it did, the one case register.rs
\* concedes; a set is replaced whole, never mixed with another.
AccountHasCodes ==
  /\ registrations = 1 /\ codes = << >> =>
       lostCodes \/ \E c \in Clients : At(c, "register", "codes")
  /\ codes # << >> => \E n \in 1..setsIssued : DOMAIN codes = CodeSet(n)

\* Once a redemption is over, no session rests on a password it replaced
\* (redeem_recovery_code.rs, FR-AU-14), but for two: one whose login had
\* verified that password and had yet to write the session when the sessions
\* were deleted, and those left by a redemption that stopped between its
\* password and its sessions.
RedemptionEndsSessions ==
  \A s \in sessions :
    s.since = resets \/ s.crossed \/ cutShort \/ \E c \in Clients : CutsShort(c)

\* The stored password changes only by a registration that found none, by a
\* caller who presented a live session, or by one who spent a code; outside
\* local mode nothing about the account changes.
PasswordIsEarned ==
  [][/\ credential' # credential =>
          \E c \in Clients :
            \/ At(c, "register", "insert") /\ credential = NoAccount
            \/ At(c, "set", "write")
            \/ At(c, "redeem", "password") /\
                 (job[c].code \in DOMAIN codes => codes[job[c].code] = "spent")
     /\ mode # "local" => UNCHANGED <<credential, codes>>]_authVars
=============================================================================
