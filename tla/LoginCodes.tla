----------------------------- MODULE LoginCodes -----------------------------
(***************************************************************************)
(* The emailed login codes of one address (edge api/login-codes.ts and     *)
(* /email/verify in api/auth-routes.ts): a verify is three D1 calls with   *)
(* awaits between them, and several run at once.  A code is the number of  *)
(* its row, a guess the row whose digits it has, 0 for none; two rows have *)
(* different digits.                                                       *)
(***************************************************************************)
EXTENDS Naturals, FiniteSets

CONSTANTS
  Verifiers,         \* the requests to /email/verify at one time
  MAX_CODES,         \* codes the caps allow: EMAIL_PER_DAY, the budget
  MAX_CODE_ATTEMPTS, RECENT  \* the newest codes that a verify tries (3)

ASSUME CodesAssumption == {MAX_CODES, MAX_CODE_ATTEMPTS, RECENT} \subseteq Nat

VARIABLES
  codes,            \* login_codes: rows so far
  consumed, expired, \* the rows with consumed_at, and those past expires_at
  tried,             \* attempts of each row
  account,           \* users.status, "none" before the first login
  request,           \* each verify: what it has come to, its row and its guess
  compared,          \* guesses that were compared with each row
  minted,            \* tokens that each row has paid for
  since              \* tokens minted when each row was inserted

codeVars ==
  <<codes, consumed, expired, tried, account, request, compared, minted, since>>

Codes == 1 .. MAX_CODES
Free == [at |-> "free", row |-> 0, guess |-> 0]

CodesTypeOK ==
  /\ codes \in 0 .. MAX_CODES /\ consumed \cup expired \subseteq Codes
  /\ tried \in [Codes -> 0 .. MAX_CODE_ATTEMPTS] /\ account \in {"none", "active", "suspended", "deleted"}
  /\ request \in [Verifiers -> [at : {"free", "others", "matched"}, row : 0 .. MAX_CODES,
                                guess : 0 .. MAX_CODES]]
  /\ {compared, minted, since} \subseteq [Codes -> Nat]

CodesInit ==
  /\ codes = 0 /\ consumed = {} /\ expired = {} /\ account = "none"
  /\ tried = [k \in Codes |-> 0] /\ compared = tried /\ minted = tried /\ since = tried
  /\ request = [v \in Verifiers |-> Free]

Live(k) == k \in 1 .. codes /\ k \notin consumed \cup expired
Becomes(v, r) == request' = [request EXCEPT ![v] = r]

(* Each row that is compared with the guess pays an attempt first.         *)
Try(rows) ==
  /\ tried' = [k \in Codes |-> IF k \in rows THEN tried[k] + 1 ELSE tried[k]]
  /\ compared' = [k \in Codes |-> IF k \in rows THEN compared[k] + 1 ELSE compared[k]]

(* issueCode: the slot, whether or not the email gets there.               *)
IssueCode ==
  /\ codes < MAX_CODES /\ codes' = codes + 1
  /\ since' = [since EXCEPT ![codes'] = Cardinality({k \in Codes : minted[k] > 0})]
  /\ UNCHANGED <<consumed, expired, tried, account, request, compared, minted>>

VerifyFirst(v, id, guess) ==
  /\ request[v] = Free /\ Live(id) /\ tried[id] < MAX_CODE_ATTEMPTS
  /\ Try({id})
  /\ Becomes(v, [at |-> IF guess = id THEN "matched" ELSE "others", row |-> id, guess |-> guess])
  /\ UNCHANGED <<codes, consumed, expired, account, minted, since>>

Newest == {k \in Codes : Live(k) /\ Cardinality({j \in Codes : Live(j) /\ j > k}) < RECENT}

VerifyOthers(v) ==
  LET r == request[v]
      rows == {k \in Newest \ {r.row} : tried[k] < MAX_CODE_ATTEMPTS}
  IN /\ r.at = "others" /\ Try(rows)
     /\ Becomes(v, IF r.guess \in rows THEN [at |-> "matched", row |-> r.guess, guess |-> r.guess]
                   ELSE Free)
     /\ UNCHANGED <<codes, consumed, expired, account, minted, since>>

ConsumeAny(k) == TRUE

(* consumeMatched: changes() of the first statement gates the others.      *)
ConsumeMatched(k) == k \notin consumed

(* The success batch: its last statement, consumeCodes, is not gated.      *)
Verified(v) ==
  LET k == request[v].row
  IN /\ request[v].at = "matched" /\ Becomes(v, Free)
     /\ account' = IF ConsumeMatched(k) /\ account = "none" THEN "active" ELSE account
     /\ minted' = [minted EXCEPT ![k] = IF ConsumeMatched(k) /\ account' = "active" THEN @ + 1 ELSE @]
     /\ consumed' = consumed \cup 1 .. codes
     /\ UNCHANGED <<codes, expired, tried, compared, since>>

RequestLost(v) ==
  /\ request[v] # Free /\ Becomes(v, Free)
  /\ UNCHANGED <<codes, consumed, expired, tried, account, compared, minted, since>>

Expire(k) ==
  /\ Live(k) /\ expired' = expired \cup {k}
  /\ UNCHANGED <<codes, consumed, tried, account, request, compared, minted, since>>

SetUserSuspended ==
  /\ account \in {"active", "suspended"}
  /\ account' = IF account = "active" THEN "suspended" ELSE "active"
  /\ UNCHANGED <<codes, consumed, expired, tried, request, compared, minted, since>>

(* The deletion consumes what is outstanding.                              *)
AccountDeleted ==
  /\ account = "active" /\ account' = "deleted" /\ consumed' = consumed \cup 1 .. codes
  /\ UNCHANGED <<codes, expired, tried, request, compared, minted, since>>

CodesNext ==
  \/ IssueCode \/ SetUserSuspended \/ AccountDeleted
  \/ \E k \in Codes : Expire(k)
  \/ \E v \in Verifiers :
       \/ \E id \in Codes, guess \in 0 .. MAX_CODES : VerifyFirst(v, id, guess)
       \/ VerifyOthers(v) \/ Verified(v) \/ RequestLost(v)

CodesSpec == CodesInit /\ [][CodesNext]_codeVars

(* However verifies of one address overlap, a code pays for one token and  *)
(* of the codes that were outstanding together only one does; and no code  *)
(* is compared with more guesses than it has attempts.                     *)
OneLogin ==
  /\ \A k \in Codes : minted[k] <= 1 /\ compared[k] <= MAX_CODE_ATTEMPTS
  /\ \A j, k \in Codes : minted[j] > 0 /\ minted[k] > 0 /\ j # k => since[j] # since[k]
=============================================================================
