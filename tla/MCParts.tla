------------------------------ MODULE MCParts -------------------------------
(***************************************************************************)
(* The smaller parts of the agent and of the edge, which share no state,   *)
(* checked in one run: the value of part says which of them a behaviour is *)
(* of; the others stay where they begin.                                   *)
(***************************************************************************)
EXTENDS AgentSession, AgentRunner, Updater, Credentials, ServiceManager,
        NameRepo, LoginCodes, UsageBudget, Moderation, TLC

CONSTANT network

VARIABLE part

Parts == {"session", "runner", "updater", "credentials", "service",
          "names", "codes", "usage", "moderation"}

partsVars == <<part, sessionVars, runnerVars, updaterVars, credentialVars,
               serviceVars, repoVars, codeVars, usageVars, moderationVars>>

(* Every report weighs one.                                                *)
MCWeight == network :> 1

(* A part that has several initial states begins in one of them elsewhere. *)
PartsInit ==
  /\ part \in Parts
  /\ SessionInit /\ RunnerInit /\ UpdaterInit
  /\ CredentialsInit /\ ServiceInit /\ RepoInit /\ CodesInit
  /\ UsageInit /\ ModerationInit
  /\ part = "runner" \/ \A c \in Clients : pc[c] = "owned"
  /\ windows => part = "updater"
  /\ reachable => part = "credentials"
  /\ goos # "linux" => part = "service"

PartsNext ==
  /\ part' = part
  /\ IF part = "session" THEN SessionNext ELSE UNCHANGED sessionVars
  /\ IF part = "runner" THEN RunnerNext ELSE UNCHANGED runnerVars
  /\ IF part = "updater" THEN UpdaterNext ELSE UNCHANGED updaterVars
  /\ IF part = "credentials" THEN CredentialsNext ELSE UNCHANGED credentialVars
  /\ IF part = "service" THEN ServiceNext ELSE UNCHANGED serviceVars
  /\ IF part = "names" THEN RepoNext ELSE UNCHANGED repoVars
  /\ IF part = "codes" THEN CodesNext ELSE UNCHANGED codeVars
  /\ IF part = "usage" THEN UsageNext ELSE UNCHANGED usageVars
  /\ IF part = "moderation" THEN ModerationNext ELSE UNCHANGED moderationVars

(* SessionFairness and RunnerFairness of a behaviour that is of that part. *)
PartsFairness ==
  /\ \A g \in Goroutines : WF_sessionVars(part = "session" /\ GoesOn(g))
  /\ SF_sessionVars(part = "session" /\ StartDrain)
  /\ \A id \in Ids : WF_sessionVars(part = "session" /\ StreamCancelled(id))
  /\ WF_runnerVars(part = "runner" /\ Return)
  /\ \A c \in Clients : WF_runnerVars(part = "runner" /\ ClientGoesOn(c))

PartsSpec == PartsInit /\ [][PartsNext]_partsVars /\ PartsFairness

(* Each part's variables keep their types.                                 *)
PartsTypeOK ==
  /\ SessionTypeOK /\ RunnerTypeOK /\ UpdaterTypeOK
  /\ CredentialsTypeOK /\ ServiceTypeOK /\ RepoTypeOK /\ CodesTypeOK
  /\ UsageTypeOK /\ ModerationTypeOK
=============================================================================
