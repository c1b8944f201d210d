-------------------------- MODULE ConnectCommands --------------------------
(***************************************************************************)
(* The commands with which the connect dialog tests what was typed in,     *)
(* before the connection exists: cloudflare_validate,                      *)
(* supabase_managed_validate, aliyun_validate and tencent_validate of the  *)
(* composition.  Each makes up a connection, has the connector validate it *)
(* and then runs a full sync, whose batch is counted and dropped.  The     *)
(* dialog lets the connection be created only after the command has        *)
(* succeeded.  The sync is the one of Connectors; its end looks at the     *)
(* normalizer, which a command does not, and which knows every batch.      *)
(***************************************************************************)
EXTENDS Connectors

VARIABLE entry      \* what was typed in: right, or with a blank field

commandVars == <<vars, entry>>

\* The failures of the transports that the application gives to three of the
\* connectors: none of them has rate_limited, which is what the connectors would
\* send again.  What a body holds is the provider's.
LiveManagementFaults == {"auth", "unavailable"}
LiveAliyunFaults == {"auth", "unavailable"}
LiveTencentFaults == {"auth", "unavailable"}
LiveFaults ==
    LiveManagementFaults \cup LiveAliyunFaults \cup LiveTencentFaults
    \cup {"garbled", "unmappable", "no_total", "empty", "no_list"}

-----------------------------------------------------------------------------
(* The connection that a command makes up of a right entry, in the terms   *)
(* of ConnectorSync: whatever was typed in beside the secret, the          *)
(* configuration is the empty object.                                      *)

cloudflare_command == "ok"          \* has no other configuration
supabase_managed_command == "ok"    \* has no other configuration
aliyun_command == "content"         \* lacks access_key_id
tencent_command == "content"        \* lacks secret_id

Commands == {"cloudflare", "supabase-managed", "aliyun", "tencent"}
CommandConfig(c) ==
    CASE c = "cloudflare" -> cloudflare_command
      [] c = "supabase-managed" -> supabase_managed_command
      [] c = "aliyun" -> aliyun_command
      [] c = "tencent" -> tencent_command

\* validate of the Cloudflare connector asks for the accounts, the others ask
\* nothing.
ValidateReplies(c) ==
    {"page"} \cup {f \in Faults \cap PlatformFaults :
                     c = "cloudflare" /\ f \notin {"no_total", "unmappable"}}

-----------------------------------------------------------------------------
CommandInit ==
    /\ entry \in {"right", "blank"}
    /\ connector \in Commands /\ mode = "full" /\ config = CommandConfig(connector)
    /\ todo = <<>> /\ cur \in Fresh(<<>>)
    /\ acc = Empty /\ unread = {} /\ faults = 0
    /\ out = NoOutcome("new")
    /\ cache = NoCache /\ syncs = 1

\* The command before the first request of its sync: a blank field is refused,
\* and so is what validate does not accept.
CommandBegin(reply) ==
    /\ out.status = "new"
    /\ IF entry = "right" /\ Validates
         THEN /\ reply \in ValidateReplies(connector)
              /\ Reply(reply)
              /\ CASE reply # "page" -> Fatal(IF reply = "garbled" THEN "invalid" ELSE reply)
                   [] reply = "page" /\ Refuses({}) # "none" -> Fatal(Refuses({}))
                   [] OTHER -> out' = NoOutcome("running") /\ Open(Listings({}))
         ELSE reply = "page" /\ Fatal("config") /\ UNCHANGED faults
    /\ UNCHANGED <<request, acc, unread, cache>>

CommandStep ==
    \/ \E reply \in Faults \cup {"page"} : CommandBegin(reply)
    \/ CloudStep
    \/ PlatformStep

CommandNext == CommandStep /\ UNCHANGED entry

CommandSpec == CommandInit /\ [][CommandNext]_commandVars

-----------------------------------------------------------------------------
\* A right entry whose provider answers every request is not refused: the
\* command signs its requests with what was typed in and returns a summary.
RightEntryTested ==
    entry = "right" /\ faults = 0 => out.status # "error"

=============================================================================
