-------------------------- MODULE FileConfigSource --------------------------
(***************************************************************************)
(* The mounted agents.yaml and the FileConfigSource of one agent process   *)
(* (device-trust-mesh/dtm/common/config.py).                               *)
(*                                                                         *)
(* A file content is a record: whether it parses and validates, what it    *)
(* says of this agent, the agent's behaviour settings (llm, prompt,        *)
(* guardrails) and the bus block.  The SHA-256 digest of a content is the  *)
(* content itself, and a config version is the part of the content it      *)
(* hashes: both hashes are taken to be injective.                          *)
(***************************************************************************)
EXTENDS Naturals

CONSTANTS
  Configs,   \* the file contents an operator may write
  Unread     \* the digest before the first load

Blocks      == {"enabled", "disabled", "absent"}
PolicyModes == {"enabled", "redirect", "disabled"}

\* A bus block: the one knob a running bus accepts, and everything else.
BusConfig == [policyCommands : PolicyModes, rest : {"r1", "r2"}]

Contents == [valid : BOOLEAN, agent : Blocks, llm : {"m1", "m2"}, bus : BusConfig]

ASSUME ConfigsAssumption ==
  /\ Configs \subseteq Contents
  /\ \E c \in Configs : c.valid
  /\ Unread \notin Contents

VARIABLES
  file,      \* content mounted at the moment
  digest     \* FileConfigSource._digest: content last returned to the agent

configVars == <<file, digest>>

\* AgentSettings of the agent under content c; config_version hashes the same
\* fields, so two settings are equal exactly when their versions are.
Settings    == [agent : Blocks \ {"absent"}, llm : {"m1", "m2"}, bus : BusConfig]
SettingsOf(c) == [agent |-> c.agent, llm |-> c.llm, bus |-> c.bus]

\* _snapshot and _build: the files can be read, and every block of agents.yaml
\* passes its checks; what raises ConfigError otherwise is one case.
Builds(c) == c.valid

ConfigInit ==
  /\ file \in {c \in Configs : Builds(c)}
  /\ digest = Unread

\* load(): an invalid content raises ConfigError instead.
Load ==
  /\ Builds(file)
  /\ digest' = file

\* refresh() returns None: nothing changed, or the change is invalid and its
\* digest is not remembered.
RefreshNone ==
  /\ file = digest \/ ~Builds(file)
  /\ UNCHANGED digest

\* refresh() returns the new config and remembers its digest.
RefreshNew ==
  /\ file # digest
  /\ Builds(file)
  /\ digest' = file

\* The operator, through Kubernetes, replaces the mounted content.
Edit ==
  /\ file' \in Configs \ {file}
  /\ UNCHANGED digest
=============================================================================
