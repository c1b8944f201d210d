--------------------------- MODULE MCConnectors ---------------------------
(* Connectors on a small instance.  A request is left out where the code   *)
(* of the connector cannot tell it from one that is there; the clouds look *)
(* at the mode when they have done, and refuse it, unless it is full.      *)
EXTENDS Connectors

AllModes == {"full", "incremental", "targeted"}
AllFaults == CloudFaults \cup GitHubFaults \cup SshFaults \cup PlatformFaults

\* Modules with the same code and the same limits stand for one another.
SomeModules ==
    Modules \ {"vpc", "subnet", "security_group", "balancer", "public_ip", "tunnels", "workers"}

ConfigsOf(c) ==
    CASE c \in Clouds -> {"ok", "type", "content", "no_secret", "region"}
      [] c = "ssh" -> {"ok", "type", "schema", "content"}
      [] c = "supabase-self-hosted" -> {"ok", "type"}
      [] c = "fixture" -> {"ok", "type", "secret"}
      [] OTHER -> {"ok", "type", "schema", "content", "no_secret"}
Platforms == {"aliyun", "tencent", "github", "ssh", "dokploy", "cloudflare",
              "supabase-managed", "supabase-self-hosted", "fixture"}

AllRequests ==
    UNION {{<<c, "full", f>> : f \in ConfigsOf(c)} : c \in Platforms}
    \cup (Platforms \ Clouds) \X {"incremental", "targeted"} \X {"ok"}

=============================================================================
