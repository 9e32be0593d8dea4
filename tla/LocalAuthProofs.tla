--------------------------- MODULE LocalAuthProofs ---------------------------
(***************************************************************************)
(* Theorems about LocalAuth for any number of clients, passwords, codes    *)
(* and sets of codes: what a recovery code buys, what a redemption ends,   *)
(* and who may change the password.                                        *)
(***************************************************************************)
EXTENDS LocalAuth, TLAPS

(* A client that asks nothing has its type.                                *)
LEMMA IdleType == Idle \in JobTypes /\ <<0, 0>> \in Codes
  BY AuthAssumption DEF Idle, JobTypes, NoAccount, Codes, Statements

(* A set of fresh codes.                                                   *)
LEMMA FreshCodes ==
  ASSUME AuthTypeOK, ReplaceCodes
  PROVE  /\ setsIssued' = setsIssued + 1 /\ setsIssued' \in 1..MaxSets
         /\ DOMAIN codes' = CodeSet(setsIssued') /\ codes' # << >>
         /\ \A k \in DOMAIN codes' : k \in Codes /\ codes'[k] = "unspent"
                                     /\ k[1] = setsIssued'
  <1>1. setsIssued' = setsIssued + 1 /\ setsIssued' \in 1..MaxSets
    BY AuthAssumption DEF AuthTypeOK, ReplaceCodes
  <1>2. DOMAIN codes' = CodeSet(setsIssued')
    BY DEF ReplaceCodes
  <1>3. \A k \in CodeSet(setsIssued') : k \in Codes /\ k[1] = setsIssued'
    BY <1>1, AuthAssumption DEF CodeSet, Codes
  <1>4. <<setsIssued', 1>> \in CodeSet(setsIssued')
    BY AuthAssumption DEF CodeSet
  <1>5. codes' # << >>
    BY <1>2, <1>4
  <1> QED
    BY <1>1, <1>2, <1>3, <1>5 DEF ReplaceCodes

(* A new session has its type.                                             *)
LEMMA NewSessionType ==
  ASSUME AuthTypeOK, NEW since \in Nat, NEW crossed \in BOOLEAN, NewSession(since, crossed)
  PROVE  sessions' \subseteq SessionTypes /\ nextSession' \in 0..MaxSessions
  <1> DEFINE s == [id |-> nextSession + 1, expires |-> wallClock + SessionTtl,
                   since |-> since, crossed |-> crossed]
  <1>1. nextSession + 1 \in 1..MaxSessions /\ wallClock + SessionTtl \in Nat
    BY AuthAssumption DEF NewSession, AuthTypeOK
  <1>2. s \in SessionTypes
    BY <1>1 DEF SessionTypes
  <1>3. sessions' = sessions \cup {s} /\ nextSession' = nextSession + 1
    BY DEF NewSession
  <1> QED
    BY <1>1, <1>2, <1>3 DEF AuthTypeOK

-----------------------------------------------------------------------------
(* Type correctness. *)

(* The service begins well typed.                                          *)
LEMMA AuthInitType == AuthInit => AuthTypeOK
  <1> SUFFICES ASSUME AuthInit PROVE AuthTypeOK
    OBVIOUS
  <1>1. \A k \in DOMAIN codes : FALSE
    BY DEF AuthInit
  <1>2. job \in [Clients -> JobTypes]
    BY IdleType DEF AuthInit
  <1>3. wallClock \in 0..MaxTime /\ setsIssued \in 0..MaxSets /\ nextSession \in 0..MaxSessions
    BY AuthAssumption DEF AuthInit
  <1> QED
    BY <1>1, <1>2, <1>3 DEF AuthInit, AuthTypeOK

(* A new call keeps the types.                                             *)
LEMMA CallType ==
  ASSUME AuthTypeOK, NEW c \in Clients, Call(c)
  PROVE  AuthTypeOK'
  <1> USE IdleType DEF AuthTypeOK
  <1>1. ASSUME NEW verb \in {"register", "redeem", "login", "set", "regenerate"}, NEW at \in Statements, NEW pw \in Passwords \cup {NoAccount},
               NEW code \in Codes, Goto(c, verb, at, pw, code),
               UNCHANGED <<mode, tables, wallClock, setsIssued, history>>
        PROVE  AuthTypeOK'
    <2>1. [verb |-> verb, at |-> at, pw |-> pw, code |-> code,
           since |-> resets, crossed |-> FALSE] \in JobTypes
      BY DEF JobTypes
    <2>2. job' \in [Clients -> JobTypes]
      BY <1>1, <2>1 DEF Goto
    <2> QED
      BY <1>1, <2>2 DEF tables, history
  <1>2. CASE WindowsLogin(c)
    <2>1. sessions' \subseteq SessionTypes /\ nextSession' \in 0..MaxSessions
      BY <1>2, NewSessionType DEF WindowsLogin
    <2> QED
      BY <1>2, <2>1 DEF WindowsLogin
  <1>3. {"insert", "consume", "session", "write", "codes"} \subseteq Statements
    BY DEF Statements
  <1> QED
    BY <1>1, <1>2, <1>3, AuthAssumption DEF Call, RegisterCheck, RedeemCheck, LoginVerify, SetCheck,
      RegenerateCheck

(* Every statement of a call, and its failure, keeps the types.            *)
LEMMA StatementType ==
  ASSUME AuthTypeOK, NEW c \in Clients, Statement(c) \/ StatementFails(c)
  PROVE  AuthTypeOK'
  <1> USE IdleType DEF AuthTypeOK
  <1>1. job[c] \in JobTypes /\ job[c].pw \in Passwords \cup {NoAccount}
    BY DEF JobTypes
  <1>2. ASSUME NEW at \in Statements, Advance(c, at) PROVE job' \in [Clients -> JobTypes]
    BY <1>1, <1>2 DEF Advance, JobTypes
  <1>3. ASSUME Done(c) PROVE job' \in [Clients -> JobTypes]
    BY <1>3 DEF Done
  <1>4. {"codes", "session", "password", "sessions"} \subseteq Statements
    BY DEF Statements
  <1>5. ReplaceCodes => \A k \in DOMAIN codes' : k \in Codes /\ codes'[k] \in {"unspent", "spent"}
    BY FreshCodes
  <1>6. ReplaceCodes => setsIssued' \in 0..MaxSets
    BY FreshCodes
  <1>10. CASE RegisterInsert(c)
    BY <1>1, <1>2, <1>3, <1>4, <1>10 DEF RegisterInsert
  <1>11. CASE RegisterCodes(c)
    BY <1>2, <1>4, <1>5, <1>6, <1>11 DEF RegisterCodes, history
  <1>12. CASE OpenSession(c)
    <2>1. sessions' \subseteq SessionTypes /\ nextSession' \in 0..MaxSessions
      BY <1>1, <1>12, NewSessionType DEF OpenSession, JobTypes
    <2> QED
      BY <1>3, <1>12, <2>1 DEF OpenSession
  <1>13. CASE SetWrite(c)
    BY <1>1, <1>3, <1>13 DEF SetWrite, history
  <1>14. CASE RegenerateCodes(c)
    BY <1>3, <1>5, <1>6, <1>14 DEF RegenerateCodes, history
  <1>15. CASE RedeemConsume(c)
    BY <1>1, <1>2, <1>3, <1>4, <1>15 DEF RedeemConsume, history
  <1>16. CASE RedeemPassword(c)
    BY <1>1, <1>2, <1>4, <1>16 DEF RedeemPassword
  <1>17. CASE RedeemSessions(c)
    <2>1. \A d \in Clients : [job[d] EXCEPT !.crossed = TRUE] \in JobTypes
      BY DEF JobTypes
    <2>2. job' \in [Clients -> JobTypes]
      BY <1>17, <2>1 DEF RedeemSessions
    <2> QED
      BY <1>17, <2>2 DEF RedeemSessions, history
  <1>18. CASE StatementFails(c)
    BY <1>3, <1>18 DEF StatementFails, tables, LosesCodes, CutsShort, At
  <1> QED
    BY <1>10, <1>11, <1>12, <1>13, <1>14, <1>15, <1>16, <1>17, <1>18 DEF Statement

(* Every step keeps the types.                                             *)
LEMMA AuthStepType == AuthTypeOK /\ [AuthNext]_authVars => AuthTypeOK'
  <1> SUFFICES ASSUME AuthTypeOK, [AuthNext]_authVars PROVE AuthTypeOK'
    OBVIOUS
  <1>1. CASE AuthRestart
    BY <1>1, IdleType DEF AuthRestart, AuthTypeOK, tables, LosesCodes, CutsShort, At
  <1>2. CASE Tick
    BY <1>2, AuthAssumption DEF Tick, AuthTypeOK, tables, history
  <1>3. CASE UNCHANGED authVars
    BY <1>3 DEF AuthTypeOK, authVars, history
  <1> QED
    BY <1>1, <1>2, <1>3, CallType, StatementType DEF AuthNext

(* Every step of AuthSpec keeps every variable in its set of values.       *)
THEOREM AuthTypeCorrect == AuthSpec => []AuthTypeOK
  BY AuthInitType, AuthStepType, PTL DEF AuthSpec

-----------------------------------------------------------------------------
(* The inductive invariant. *)

\* A redemption past its consume.
Redeems(c) == At(c, "redeem", "password") \/ At(c, "redeem", "sessions")

\* The code it spent is of a set already issued: no later set has it again.
SpentCodesStayOld == \A c \in Clients : Redeems(c) => job[c].code[1] <= setsIssued

\* What RedemptionEndsSessions says of sessions holds of the logins on their
\* way to one as well.
SinceIsCurrent(s) ==
  s.since = resets \/ s.crossed \/ cutShort \/ \E c \in Clients : CutsShort(c)
JobsAreCurrent == \A c \in Clients : job[c] # Idle => SinceIsCurrent(job[c])

\* Calls other than the Windows login begin in local mode and end with it.
JobsAreLocal == \A c \in Clients : job[c] # Idle => mode = "local"

AuthIInv ==
  /\ AuthTypeOK /\ CodeBuysOneRedemption /\ SpentCodesStayOld /\ AccountHasCodes
  /\ RedemptionEndsSessions /\ JobsAreCurrent /\ JobsAreLocal


(* The inductive invariant holds at first.                                 *)
LEMMA AuthInitHolds == AuthInit => AuthIInv
  <1> SUFFICES ASSUME AuthInit PROVE AuthIInv
    OBVIOUS
  <1>1. \A c \in Clients : job[c] = Idle /\ ~ Redeems(c)
    BY DEF AuthInit, Redeems, At, Idle
  <1>2. AuthTypeOK
    BY AuthInitType
  <1> QED
    BY <1>1, <1>2 DEF AuthInit, AuthIInv, CodeBuysOneRedemption, SpentCodesStayOld, AccountHasCodes,
       RedemptionEndsSessions, JobsAreCurrent, JobsAreLocal, Redeems

(* A statement other than consume makes no call a redemption past it.      *)
NoNewRedemption ==
  \A c \in Clients : Redeems(c)' => Redeems(c) /\ job'[c].code = job[c].code

(* A code is redeemed by the statement that consumes it and by no other    *)
(* step.                                                                   *)
LEMMA OnlyConsumeRedeems ==
  ASSUME AuthTypeOK, [AuthNext]_authVars, \A c \in Clients : ~ RedeemConsume(c)
  PROVE  NoNewRedemption /\ (UNCHANGED <<codes, setsIssued>> \/ ReplaceCodes)
  <1> USE DEF AuthTypeOK, Redeems, At, tables, history
  <1>1. ASSUME NEW c \in Clients, NEW verb, NEW at, NEW pw, NEW code, Goto(c, verb, at, pw, code),
               at \notin {"password", "sessions"}
        PROVE  NoNewRedemption
    BY <1>1 DEF Goto, NoNewRedemption
  <1>2. ASSUME NEW c \in Clients, Done(c) PROVE NoNewRedemption
    BY <1>2 DEF Done, Idle, NoNewRedemption
  <1>3. ASSUME NEW c \in Clients, NEW at, Advance(c, at), job[c].verb = "register" \/ Redeems(c)
        PROVE  NoNewRedemption
    BY <1>3 DEF Advance, NoNewRedemption, JobTypes
  <1>4. ASSUME NEW c \in Clients, Call(c)
        PROVE  NoNewRedemption /\ UNCHANGED <<codes, setsIssued>>
    <2>1. CASE WindowsLogin(c)
      BY <2>1 DEF WindowsLogin, NoNewRedemption
    <2> QED
      BY <1>1, <1>4, <2>1 DEF Call, RegisterCheck, RedeemCheck, LoginVerify, SetCheck, RegenerateCheck
  <1>5. ASSUME NEW c \in Clients, RegisterInsert(c) \/ RegisterCodes(c) \/ RedeemPassword(c)
        PROVE  NoNewRedemption /\ (UNCHANGED <<codes, setsIssued>> \/ ReplaceCodes)
    BY <1>2, <1>3, <1>5 DEF RegisterInsert, RegisterCodes, RedeemPassword
  <1>6. ASSUME NEW c \in Clients,
               OpenSession(c) \/ SetWrite(c) \/ RegenerateCodes(c) \/ StatementFails(c)
        PROVE  NoNewRedemption /\ (UNCHANGED <<codes, setsIssued>> \/ ReplaceCodes)
    BY <1>2, <1>6 DEF OpenSession, SetWrite, RegenerateCodes, StatementFails
  <1>7. ASSUME NEW c \in Clients, RedeemSessions(c)
        PROVE  NoNewRedemption /\ UNCHANGED <<codes, setsIssued>>
    BY <1>7 DEF RedeemSessions, NoNewRedemption, Idle, JobTypes
  <1>8. CASE AuthRestart \/ Tick \/ UNCHANGED authVars
    BY <1>8 DEF AuthRestart, Tick, authVars, NoNewRedemption, Idle
  <1> QED
    BY <1>4, <1>5, <1>6, <1>7, <1>8 DEF AuthNext, Statement

(* A redemption keeps its code to itself: consume finds it unspent, so that *)
(* nobody has got past it, and a new set has codes of its own.             *)
LEMMA CodesKept ==
  ASSUME AuthIInv, [AuthNext]_authVars
  PROVE  CodeBuysOneRedemption' /\ SpentCodesStayOld'
  <1> USE DEF AuthIInv, CodeBuysOneRedemption, SpentCodesStayOld, Redeems
  <1>1. ASSUME NEW c \in Clients, RedeemConsume(c)
        PROVE  CodeBuysOneRedemption' /\ SpentCodesStayOld'
    <2>1. CASE job[c].code \in DOMAIN codes /\ codes[job[c].code] = "unspent"
      <3>1. codes' = [codes EXCEPT ![job[c].code] = "spent"] /\ setsIssued' = setsIssued
        BY <1>1, <2>1 DEF RedeemConsume
      <3>2. \A d \in Clients : job'[d].code = job[d].code /\ (d # c => (Redeems(d)' <=> Redeems(d)))
        BY <1>1, <2>1 DEF RedeemConsume, Advance, AuthTypeOK, JobTypes, At
      <3>3. job[c].code[1] <= setsIssued
        <4>1. PICK n \in 1..setsIssued : DOMAIN codes = CodeSet(n)
          BY <2>1 DEF AccountHasCodes
        <4> QED
          BY <2>1, <4>1 DEF CodeSet, AuthTypeOK
      <3>4. \A d \in Clients : Redeems(d) => job[d].code # job[c].code
        BY <2>1
      <3> QED
        BY <3>1, <3>2, <3>3, <3>4
    <2>2. CASE ~ (job[c].code \in DOMAIN codes /\ codes[job[c].code] = "unspent")
      <3>1. codes' = codes /\ setsIssued' = setsIssued
        BY <1>1, <2>2 DEF RedeemConsume
      <3>2. \A d \in Clients : Redeems(d)' => Redeems(d) /\ job'[d].code = job[d].code
        BY <1>1, <2>2 DEF RedeemConsume, Done, AuthTypeOK, At, Idle
      <3> QED
        BY <3>1, <3>2
    <2> QED
      BY <2>1, <2>2
  <1>2. ASSUME NoNewRedemption, UNCHANGED <<codes, setsIssued>>
        PROVE  CodeBuysOneRedemption' /\ SpentCodesStayOld'
    BY <1>2 DEF NoNewRedemption
  <1>3. ASSUME NoNewRedemption, ReplaceCodes
        PROVE  CodeBuysOneRedemption' /\ SpentCodesStayOld'
    <2>1. \A c \in Clients : Redeems(c)' => job'[c].code \notin DOMAIN codes' /\ job'[c].code[1] <= setsIssued'
      <3>1. \A c \in Clients : job[c].code[1] \in Nat
        BY DEF AuthTypeOK, JobTypes, Codes
      <3> QED
        BY <1>3, <3>1, FreshCodes DEF NoNewRedemption, AuthTypeOK
    <2> QED
      BY <1>3, <2>1 DEF NoNewRedemption
  <1> QED
    BY <1>1, <1>2, <1>3, OnlyConsumeRedeems

(* Every code of the account is of one set, and only a registration that    *)
(* stops short leaves it without any.                                      *)
LEMMA AccountKept ==
  ASSUME AuthIInv, [AuthNext]_authVars
  PROVE  AccountHasCodes'
  <1> USE DEF AuthIInv, AuthTypeOK, At, tables, history
  <1> DEFINE Writing == \E c \in Clients : At(c, "register", "codes")
  <1>1. codes' # << >> => \E n \in 1..setsIssued' : DOMAIN codes' = CodeSet(n)
    <2>1. CASE \E c \in Clients : RedeemConsume(c)
      <3>1. DOMAIN codes' = DOMAIN codes /\ setsIssued' = setsIssued /\ (codes' # codes => codes # << >>)
        <4>1. DOMAIN << >> = {}
          OBVIOUS
        <4> QED
          BY <2>1, <4>1 DEF RedeemConsume
      <3> QED
        BY <3>1 DEF AccountHasCodes
    <2>2. CASE ReplaceCodes
      BY <2>2, FreshCodes DEF AccountHasCodes
    <2> QED
      BY <2>1, <2>2, OnlyConsumeRedeems DEF AccountHasCodes
  <1>2. codes' = << >> => codes = << >>
    <2>1. CASE \E c \in Clients : RedeemConsume(c)
      <3>1. DOMAIN << >> = {}
        OBVIOUS
      <3> QED
        BY <2>1, <3>1 DEF RedeemConsume
    <2>2. CASE ReplaceCodes
      BY <2>2, FreshCodes
    <2> QED
      BY <2>1, <2>2, OnlyConsumeRedeems
  <1>3. ASSUME NEW c \in Clients, RegisterInsert(c)
        PROVE  registrations' = 1 =>
                 (registrations = 1 /\ UNCHANGED lostCodes /\ (Writing => Writing')) \/ Writing'
    BY <1>3 DEF RegisterInsert, Advance, Done, JobTypes
  <1>4. ASSUME codes' = << >>, registrations' = 1, ~ \E c \in Clients : RegisterInsert(c)
        PROVE  registrations = 1 /\ (lostCodes => lostCodes') /\ (Writing => lostCodes' \/ Writing')
    <2>1. ASSUME NEW c \in Clients, Call(c) PROVE UNCHANGED <<registrations, lostCodes>> /\ (Writing => Writing')
      BY <2>1 DEF Call, RegisterCheck, RedeemCheck, LoginVerify, SetCheck, RegenerateCheck, WindowsLogin,
                  NewSession, Goto, Idle
    <2>2. ASSUME NEW c \in Clients, Statement(c)
          PROVE  UNCHANGED <<registrations, lostCodes>> /\ (Writing => Writing')
      <3>1. ~ RegisterCodes(c)
        BY <1>4, FreshCodes DEF RegisterCodes
      <3> QED
        BY <1>4, <2>2, <3>1 DEF Statement, OpenSession, SetWrite, RegenerateCodes, RedeemConsume,
           RedeemPassword, RedeemSessions, Advance, Done, Idle, NewSession, JobTypes
    <2>3. ASSUME NEW c \in Clients, StatementFails(c)
          PROVE  /\ UNCHANGED registrations /\ (lostCodes => lostCodes')
                 /\ (Writing => lostCodes' \/ Writing')
      BY <2>3 DEF StatementFails, LosesCodes, Done
    <2>4. CASE AuthRestart \/ Tick \/ UNCHANGED authVars
      BY <1>4, <2>4 DEF AuthRestart, Tick, authVars, LosesCodes
    <2> QED
      BY <1>4, <2>1, <2>2, <2>3, <2>4 DEF AuthNext
  <1>5. registrations' = 1 /\ codes' = << >> => lostCodes' \/ Writing'
    BY <1>2, <1>3, <1>4 DEF AccountHasCodes
  <1> QED
    BY <1>1, <1>5 DEF AccountHasCodes

(* A client with a statement to run is not idle.                           *)
LEMMA StatementIsBusy ==
  ASSUME NEW c \in Clients, Statement(c)
  PROVE  job[c] # Idle
  <1>1. job[c].verb # "idle"
    BY DEF Statement, RegisterInsert, RegisterCodes, OpenSession, SetWrite, RegenerateCodes,
           RedeemConsume, RedeemPassword, RedeemSessions, At
  <1> QED
    BY <1>1 DEF Idle

(* What a session or a login on its way to one was let in on.              *)
LEMMA CurrencyKept ==
  ASSUME AuthIInv, [AuthNext]_authVars
  PROVE  RedemptionEndsSessions' /\ JobsAreCurrent'
  <1> USE DEF AuthIInv, AuthTypeOK, RedemptionEndsSessions, JobsAreCurrent, SinceIsCurrent, CutsShort, At,
              tables, history
  <1>1. ASSUME NEW c \in Clients, Call(c)
        PROVE  RedemptionEndsSessions' /\ JobsAreCurrent'
    <2>1. CASE WindowsLogin(c)
      BY <2>1 DEF WindowsLogin, NewSession
    <2>2. ASSUME NEW verb, NEW at, NEW pw, NEW code, Goto(c, verb, at, pw, code), job[c] = Idle,
                 UNCHANGED <<sessions, history>>
          PROVE  RedemptionEndsSessions' /\ JobsAreCurrent'
      <3>1. ~ CutsShort(c) /\ job'[c].since = resets /\ \A d \in Clients \ {c} : job'[d] = job[d]
        BY <2>2 DEF Goto, Idle
      <3>2. \A d \in Clients : CutsShort(d) => CutsShort(d)'
        BY <3>1
      <3> QED
        BY <2>2, <3>1, <3>2
    <2> QED
      BY <1>1, <2>1, <2>2 DEF Call, RegisterCheck, RedeemCheck, LoginVerify, SetCheck, RegenerateCheck
  <1>2. ASSUME NEW c \in Clients, Statement(c)
        PROVE  RedemptionEndsSessions' /\ JobsAreCurrent'
    <2>1. job[c] # Idle
      BY <1>2, StatementIsBusy
    <2>2. ASSUME RegisterInsert(c) \/ RegisterCodes(c) \/ SetWrite(c) \/ RegenerateCodes(c) \/ RedeemConsume(c)
          PROVE  RedemptionEndsSessions' /\ JobsAreCurrent'
      <3>1. UNCHANGED <<sessions, resets, cutShort>>
        BY <2>2 DEF RegisterInsert, RegisterCodes, SetWrite, RegenerateCodes, RedeemConsume
      <3>2. job[c].at # "sessions" /\ ((\E at \in Statements : Advance(c, at)) \/ Done(c))
        BY <2>2 DEF RegisterInsert, RegisterCodes, SetWrite, RegenerateCodes, RedeemConsume, Statements
      <3>3. \A d \in Clients : /\ CutsShort(d) => CutsShort(d)'
                             /\ job'[d] # Idle => /\ job'[d].since = job[d].since
                                                  /\ job'[d].crossed = job[d].crossed
        BY <3>2 DEF Advance, Done, JobTypes
      <3> QED
        BY <2>1, <3>1, <3>2, <3>3 DEF Advance, Done
    <2>3. CASE OpenSession(c)
      <3>1. UNCHANGED <<resets, cutShort>> /\ \A d \in Clients : CutsShort(d) => CutsShort(d)'
        BY <2>3 DEF OpenSession, Done
      <3>2. \A s \in sessions' : s \in sessions \/ (s.since = job[c].since /\ s.crossed = job[c].crossed)
        BY <2>3 DEF OpenSession, NewSession
      <3>3. \A d \in Clients : job'[d] = Idle \/ job'[d] = job[d]
        BY <2>3 DEF OpenSession, Done
      <3>4. ASSUME NEW x, SinceIsCurrent(x) PROVE SinceIsCurrent(x)'
        BY <3>1, <3>4
      <3>5. ASSUME NEW x, x.since = job[c].since /\ x.crossed = job[c].crossed PROVE SinceIsCurrent(x)
        BY <2>1, <3>5
      <3>6. \A s \in sessions' : SinceIsCurrent(s)'
        <4> HIDE DEF SinceIsCurrent
        <4>1. \A s \in sessions : SinceIsCurrent(s)
          BY DEF SinceIsCurrent
        <4> QED
          BY <3>2, <3>4, <3>5, <4>1
      <3>7. \A d \in Clients : job'[d] # Idle => SinceIsCurrent(job[d])'
        BY <3>3, <3>4
      <3> QED
        BY <3>3, <3>6, <3>7
    <2>4. CASE RedeemPassword(c)
      <3>1. CutsShort(c)'
        BY <2>4 DEF RedeemPassword, Advance, JobTypes
      <3> QED
        BY <3>1
    <2>5. CASE RedeemSessions(c)
      <3>1. sessions' = {} /\ \A d \in Clients : job'[d] # Idle => job'[d].crossed
        BY <2>5 DEF RedeemSessions, JobTypes
      <3> QED
        BY <3>1
    <2> QED
      BY <1>2, <2>2, <2>3, <2>4, <2>5 DEF Statement
  <1>3. ASSUME NEW c \in Clients, StatementFails(c)
        PROVE  RedemptionEndsSessions' /\ JobsAreCurrent'
    BY <1>3 DEF StatementFails, Done, Idle
  <1>4. CASE AuthRestart
    BY <1>4 DEF AuthRestart, Idle
  <1>5. CASE Tick \/ UNCHANGED authVars
    BY <1>5 DEF Tick, authVars
  <1> QED
    BY <1>1, <1>2, <1>3, <1>4, <1>5 DEF AuthNext

(* Every step keeps that calls on the account run in local mode.           *)
LEMMA LocalKept ==
  ASSUME AuthIInv, [AuthNext]_authVars
  PROVE  JobsAreLocal'
  <1> USE DEF AuthIInv, AuthTypeOK, JobsAreLocal, At, tables, history
  <1>1. ASSUME NEW c \in Clients, Call(c)
        PROVE  JobsAreLocal'
    BY <1>1 DEF Call, RegisterCheck, RedeemCheck, LoginVerify, SetCheck, RegenerateCheck, WindowsLogin, Goto
  <1>2. ASSUME NEW c \in Clients, Statement(c) \/ StatementFails(c)
        PROVE  JobsAreLocal'
    <2>1. job[c] # Idle /\ mode' = mode
      BY <1>2, StatementIsBusy DEF Statement, RegisterInsert, RegisterCodes, OpenSession, SetWrite, RegenerateCodes, RedeemConsume,
                  RedeemPassword, RedeemSessions, StatementFails, Idle
    <2> QED
      BY <2>1
  <1> QED
    BY <1>1, <1>2 DEF AuthNext, AuthRestart, Tick, authVars

(* What is known of the account, its codes and its sessions at any time.   *)
THEOREM AuthInvariance == AuthSpec => []AuthIInv
  <1>1. AuthIInv /\ [AuthNext]_authVars => AuthIInv'
    BY AuthStepType, CodesKept, AccountKept, CurrencyKept, LocalKept DEF AuthIInv
  <1> QED
    BY <1>1, AuthInitHolds, PTL DEF AuthSpec

-----------------------------------------------------------------------------
(* Two redemptions never both get past the same code, and a code that was   *)
(* spent stays spent or is replaced (redeem_recovery_code.rs).             *)
THEOREM CodeTheorem == AuthSpec => []CodeBuysOneRedemption
  BY AuthInvariance, PTL DEF AuthIInv

(* An account has a set of codes that is whole, but for the registration    *)
(* that stopped before it wrote one (register.rs).                         *)
THEOREM AccountTheorem == AuthSpec => []AccountHasCodes
  BY AuthInvariance, PTL DEF AuthIInv

(* A session rests on a password that still opens the account, but for the  *)
(* two that the code lets stand (redeem_recovery_code.rs, FR-AU-14).       *)
THEOREM SessionsTheorem == AuthSpec => []RedemptionEndsSessions
  BY AuthInvariance, PTL DEF AuthIInv

(* Who may write the password, and that only local mode touches the account *)
(* (register.rs, set_local_credentials.rs, redeem_recovery_code.rs).       *)
THEOREM PasswordTheorem == AuthSpec => PasswordIsEarned
  <1> DEFINE Earned ==
        \E c \in Clients :
          \/ At(c, "register", "insert") /\ credential = NoAccount
          \/ At(c, "set", "write")
          \/ At(c, "redeem", "password") /\
               (job[c].code \in DOMAIN codes => codes[job[c].code] = "spent")
  <1>1. ASSUME AuthIInv, AuthNext
        PROVE  /\ credential' # credential => Earned
               /\ mode # "local" => UNCHANGED <<credential, codes>>
    <2>1. ASSUME NEW c \in Clients, Statement(c)
          PROVE  /\ mode = "local"
                 /\ credential' # credential =>
                      (RegisterInsert(c) /\ credential = NoAccount) \/ SetWrite(c) \/ RedeemPassword(c)
      <3>1. mode = "local"
        BY <1>1, <2>1, StatementIsBusy DEF AuthIInv, JobsAreLocal
      <3> QED
        BY <2>1, <3>1 DEF Statement, RegisterInsert, RegisterCodes, OpenSession, RegenerateCodes,
                          RedeemConsume, RedeemSessions
    <2>2. ASSUME NEW c \in Clients, Statement(c), credential' # credential
          PROVE  Earned
      <3>1. CASE RedeemPassword(c)
        BY <1>1, <3>1 DEF AuthIInv, CodeBuysOneRedemption, RedeemPassword
      <3> QED
        BY <2>1, <2>2, <3>1 DEF RegisterInsert, SetWrite
    <2>3. ASSUME NEW c \in Clients, Call(c) \/ StatementFails(c)
          PROVE  UNCHANGED <<credential, codes>>
      BY <2>3 DEF Call, RegisterCheck, RedeemCheck, LoginVerify, SetCheck, RegenerateCheck, WindowsLogin,
                  StatementFails, tables
    <2>4. CASE AuthRestart \/ Tick
      BY <2>4 DEF AuthRestart, Tick, tables
    <2> QED
      BY <1>1, <2>1, <2>2, <2>3, <2>4 DEF AuthNext
  <1> QED
    BY <1>1, AuthInvariance, PTL DEF AuthSpec, PasswordIsEarned
=============================================================================
