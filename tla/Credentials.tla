---------------------------- MODULE Credentials -----------------------------
(***************************************************************************)
(* The token of one server on one machine (internal/auth/store.go): the OS *)
(* keychain and the credentials file, and the commands that change them:   *)
(* login, logout, config add-token.  A command may fail or be killed       *)
(* between any two of its steps.  They run one at a time; the keychain may *)
(* be there or not, and a session with another answer may follow.          *)
(***************************************************************************)
EXTENDS Naturals

CONSTANTS
  LOGIN_TRIES, \* the attempts of login (5 in newLoginCmd)
  MAX_TOKENS   \* bound: tokens issued

ASSUME CredentialsAssumption == LOGIN_TRIES \in Nat \ {0} /\ MAX_TOKENS \in Nat

VARIABLES
  keychain,  \* the token in the keychain, 0 for none
  credsFile, \* the token in the file, 0 for none
  reachable, \* the keychain answers
  steady,    \* it has answered in the same way ever since
  doing,   \* the step the running command has come to; "none" for no command
  attempts,  \* login's attempts
  token,     \* the token the command stores, 0 for logout
  issued,    \* tokens so far
  expect,    \* what Get may return while no command runs
  leftBehind \* the file has an older token, which no Set has got rid of

credentialVars ==
  <<keychain, credsFile, reachable, steady, doing, attempts, token, issued, expect, leftBehind>>

Tokens == 0 .. MAX_TOKENS

Steps == {"none", "code", "set", "tidy", "setFile", "write", "writeOnly", "revoke",
          "deleteFile", "deleteKey"}

CredentialsTypeOK ==
  /\ {keychain, credsFile, token, issued} \subseteq Tokens /\ expect \subseteq Tokens
  /\ {reachable, steady, leftBehind} \subseteq BOOLEAN /\ doing \in Steps
  /\ attempts \in 0 .. LOGIN_TRIES

CredentialsInit ==
  /\ keychain = 0 /\ credsFile = 0 /\ reachable \in BOOLEAN /\ steady = TRUE
  /\ doing = "none" /\ attempts = 0 /\ token = 0 /\ issued = 0 /\ expect = {0}
  /\ leftBehind = FALSE

GetFileFirst == IF credsFile # 0 \/ ~reachable THEN credsFile ELSE keychain

(* Get: the keychain first, then the file.                                 *)
Get == IF reachable /\ keychain # 0 THEN keychain ELSE credsFile

Step(from, to) == doing = from /\ doing' = to

Finish(from, answers) ==
  /\ Step(from, "none") /\ expect' = answers /\ token' = 0 /\ attempts' = 0
  /\ UNCHANGED <<reachable, steady, issued>>

(* What Get may return after a command was cut off: what was there or what *)
(* it meant to leave; none when SetFile has removed the keychain's copy.   *)
HalfWay == expect \cup {token} \cup (IF doing = "writeOnly" /\ reachable THEN {0} ELSE {})

KeychainChanges ==
  /\ doing = "none" /\ reachable' = ~reachable /\ steady' = FALSE
  /\ UNCHANGED <<keychain, credsFile, doing, attempts, token, issued, expect, leftBehind>>

(* Killed, no input, or an error that nothing of the store has to do with. *)
Abort ==
  /\ doing # "none" /\ Finish(doing, HalfWay)
  /\ UNCHANGED <<keychain, credsFile, leftBehind>>

Issue(to) ==
  /\ issued < MAX_TOKENS /\ issued' = issued + 1 /\ token' = issued + 1
  /\ doing' = to
  /\ UNCHANGED <<keychain, credsFile, reachable, steady, expect, leftBehind>>

(* login: a code is sent and asked for.                                    *)
Login ==
  /\ Step("none", "code")
  /\ UNCHANGED <<keychain, credsFile, reachable, steady, attempts, token, issued, expect, leftBehind>>

CodeAccepted == doing = "code" /\ attempts < LOGIN_TRIES /\ Issue("set") /\ attempts' = 0

(* A wrong code, or Enter for another one: each uses up an attempt.        *)
CodeAgain ==
  /\ doing = "code" /\ attempts < LOGIN_TRIES /\ attempts' = attempts + 1
  /\ UNCHANGED <<keychain, credsFile, reachable, steady, doing, token, issued, expect, leftBehind>>

TooManyCodes ==
  /\ attempts = LOGIN_TRIES /\ Finish("code", expect)
  /\ UNCHANGED <<keychain, credsFile, leftBehind>>

(* config add-token: the server knows the token.                           *)
AddToken ==
  /\ doing = "none" /\ \E to \in {"set", "setFile"} : Issue(to)
  /\ UNCHANGED attempts

(* Set: the keychain, and no stale copy in the file; a failure to remove   *)
(* that is ignored.  Without a keychain, the file.                         *)
SetKeychain ==
  /\ Step("set", IF reachable THEN "tidy" ELSE "write")
  /\ keychain' = IF reachable THEN token ELSE keychain
  /\ leftBehind' = IF reachable THEN credsFile # 0 ELSE leftBehind
  /\ UNCHANGED <<credsFile, reachable, steady, attempts, token, issued, expect>>

Tidy ==
  /\ Finish("tidy", {token}) /\ credsFile' \in {0, credsFile}
  /\ leftBehind' = (credsFile' # 0)
  /\ UNCHANGED keychain

(* SetFile: the keychain's copy goes first, then the file is written.      *)
SetFileOnly ==
  /\ Step("setFile", "writeOnly")
  /\ keychain' = IF reachable THEN 0 ELSE keychain
  /\ UNCHANGED <<credsFile, reachable, steady, attempts, token, issued, expect, leftBehind>>

(* writeFile: a rename, so the file holds the one or the other.            *)
WriteFile ==
  /\ \E from \in {"write", "writeOnly"} : Finish(from, {token})
  /\ credsFile' = token /\ leftBehind' = FALSE
  /\ UNCHANGED keychain

(* logout: the server first, so that a failure leaves the token at hand.   *)
Logout ==
  /\ Get # 0 /\ \E to \in {"revoke", "deleteFile"} : Step("none", to)
  /\ UNCHANGED <<keychain, credsFile, reachable, steady, attempts, token, issued, expect, leftBehind>>

Revoked ==
  /\ Step("revoke", "deleteFile")
  /\ UNCHANGED <<keychain, credsFile, reachable, steady, attempts, token, issued, expect, leftBehind>>

NotRevoked ==
  /\ Finish("revoke", expect)
  /\ UNCHANGED <<keychain, credsFile, leftBehind>>

(* Delete: the file, then the keychain, whose failure only counts when it  *)
(* can still be read.                                                      *)
DeleteFromFile ==
  /\ Step("deleteFile", "deleteKey") /\ credsFile' = 0 /\ leftBehind' = FALSE
  /\ UNCHANGED <<keychain, reachable, steady, attempts, token, issued, expect>>

DeleteKey ==
  /\ Finish("deleteKey", {0})
  /\ keychain' = IF reachable THEN 0 ELSE keychain
  /\ UNCHANGED <<credsFile, leftBehind>>

CredentialsNext ==
  \/ KeychainChanges \/ Abort \/ Login \/ CodeAccepted \/ CodeAgain \/ TooManyCodes
  \/ AddToken \/ SetKeychain \/ Tidy \/ SetFileOnly \/ WriteFile
  \/ Logout \/ Revoked \/ NotRevoked \/ DeleteFromFile \/ DeleteKey

CredentialsSpec == CredentialsInit /\ [][CredentialsNext]_credentialVars

---------------------------------------------------------------------------
(* With a keychain that is steadily there, or steadily absent, Get returns *)
(* the token that was last saved, and none after a logout, whichever of    *)
(* the two places the commands before it used and wherever they were cut   *)
(* off.  A command that was cut off leaves what was there or what it meant *)
(* to leave; SetFile may also leave none.  The one exception: the keychain *)
(* has no token any more, and the file one that a Set should have removed. *)
GetsLatest ==
  steady /\ doing = "none" /\ ~(keychain = 0 /\ leftBehind) => Get \in expect
=============================================================================
