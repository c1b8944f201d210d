---------------------------- MODULE SshConnector ----------------------------
(***************************************************************************)
(* The SSH connector: a batch with the identity probe, and a batch with    *)
(* the probes of the host and, if services were selected, the one that     *)
(* lists the services of its platform.  A probe is one OpenSSH process.    *)
(* That batches on one host exclude each other is not modelled: one sync.  *)
(***************************************************************************)
EXTENDS ConnectorSync

\* Ways in which a probe fails: its process, what it printed, or the wall time
\* of the batch.
SshFaults == {"auth", "unavailable", "host_key", "cancelled", "invalid", "garbled",
              "expired"}

\* KiB of output: the registry's limits of stdout with that of stderr added,
\* and MAX_BATCH_OUTPUT_BYTES.
probe_output(m) ==
    32 + CASE m = "identity" -> 64
           [] m = "uptime" -> 16
           [] m \in {"filesystems", "process_summary"} -> 256
           [] m = "services" -> 512
           [] OTHER -> 0
MAX_BATCH_OUTPUT == 2048

-----------------------------------------------------------------------------
\* validate_connection and validate_sync_request.
ssh_refuses ==
    IF config \in {"type", "content"} THEN "config"
    ELSE IF config = "schema" THEN "schema"
    ELSE IF mode = "incremental" THEN "config"
    ELSE "none"
ssh_validate == config \notin {"type", "content", "schema"}

ssh_planned(services) ==
    <<Root("uptime"), Root("filesystems"), Root("process_summary")>>
    \o (IF services THEN <<Root("services")>> ELSE <<>>)

\* classify_openssh_failure and the errors of the executor, as codes.
ssh_code(reply) ==
    CASE reply = "expired" -> "unavailable"
      [] reply \in Codes -> reply
      [] OTHER -> "invalid"

\* The parsers accept an output whole or not at all.
ssh_parse(reply) == reply = "page"

\* The identity: any failure of it is the end.
ssh_identity(reply) ==
    /\ Asking("ssh") /\ Here = Root("identity")
    /\ Reply(reply)
    /\ IF ssh_parse(reply)
         THEN /\ acc' = [acc EXCEPT !.found = @ \cup {Here}, !.requests = @ + 1, !.used = 0]
              /\ \E services \in BOOLEAN : Open(ssh_planned(services))
              /\ UNCHANGED out
         ELSE /\ Fatal(ssh_code(reply))
              /\ UNCHANGED acc
    /\ UNCHANGED <<request, unread, cache>>

\* A failure of the process is reported before one of a parser, which shows
\* here as "garbled" until the end.
SshFailure(f, reply) ==
    IF reply = "garbled" THEN First(f, "garbled")
    ELSE IF f \in {"none", "garbled"} THEN ssh_code(reply) ELSE f

\* One probe of execute_batch, with its parser.  The batch ends where its time
\* or its output is used up; the probes it did not get to have no output, and
\* that is a failure of their modules as well.
ssh_probe(reply) ==
    LET reserved == acc.used + probe_output(Here.module)
        ends == reply = "expired" \/ reserved > MAX_BATCH_OUTPUT
        lost == IF ends THEN InSeq(todo) ELSE {Here}
    IN  /\ Asking("ssh") /\ Here # Root("identity")
        /\ Reply(reply)
        /\ IF reply \in {"host_key", "cancelled"}
             THEN /\ Fatal(reply)
                  /\ UNCHANGED <<acc, unread>>
             ELSE /\ IF ssh_parse(reply) /\ ~ends
                       THEN /\ acc' = [acc EXCEPT !.found = @ \cup {Here},
                                                  !.requests = @ + 1, !.used = reserved]
                            /\ UNCHANGED unread
                       ELSE /\ acc' = [acc EXCEPT !.failure = SshFailure(@, reply),
                                                  !.requests = @ + 1, !.used = reserved]
                            /\ Left(lost, "failed")
                  /\ Open(IF ends THEN <<>> ELSE Tail(todo))
                  /\ UNCHANGED out
        /\ UNCHANGED <<request, cache>>

\* The host contains what its probes have found.
ssh_relations ==
    {<<Root("identity"), l>> : l \in {k \in acc.found : k.module \in
                                 {"filesystems", "process_summary", "services"}}}

\* A targeted sync is partial whatever it has read.
ssh_finish ==
    Concluded("full",
              CASE acc.failure = "garbled" -> "invalid"
                [] acc.failure = "none" /\ mode = "targeted" -> "budget"
                [] OTHER -> acc.failure,
              ssh_relations)

SshFinish ==
    /\ Done("ssh")
    /\ out' = ssh_finish
    /\ UNCHANGED <<request, todo, cur, acc, unread, faults, cache>>

SshStep ==
    \/ \E reply \in (Faults \cap SshFaults) \cup {"page"} :
          ssh_identity(reply) \/ ssh_probe(reply)
    \/ SshFinish

=============================================================================
