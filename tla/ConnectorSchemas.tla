-------------------------- MODULE ConnectorSchemas -------------------------
(***************************************************************************)
(* What each connector declares (its descriptor: the modes it can run in,  *)
(* the kinds it reports and the relations between them) and what the       *)
(* application has registered for it (its normalizer), two lists that are  *)
(* kept by hand in different crates.  A kind has the name of the module    *)
(* that it is read from; the applications of Dokploy come with their       *)
(* projects.                                                               *)
(***************************************************************************)

Descriptor(modes, kinds, relations) ==
    [sync_modes |-> modes, kinds |-> kinds, relations |-> relations]
Normalizer(kinds, relations) == [kinds |-> kinds, relations |-> relations]

github_descriptor ==
    Descriptor({"full", "targeted"}, {"repositories", "workflows", "runs"},
               {<<"repositories", "workflows">>, <<"workflows", "runs">>})
github_normalizer ==
    Normalizer({"repositories", "workflows", "runs"},
               {<<"repositories", "workflows">>, <<"workflows", "runs">>})

ssh_descriptor ==
    Descriptor({"full", "targeted"},
               {"identity", "filesystems", "process_summary", "services"},
               {<<"identity", "filesystems">>, <<"identity", "process_summary">>,
                <<"identity", "services">>})
ssh_normalizer ==
    Normalizer({"identity", "filesystems", "process_summary", "services"},
               {<<"identity", "filesystems">>, <<"identity", "process_summary">>,
                <<"identity", "services">>})

dokploy_descriptor ==
    Descriptor({"full"}, {"projects", "deployments", "servers", "app_domains"},
               {<<"projects", "deployments">>, <<"projects", "servers">>,
                <<"projects", "app_domains">>})
dokploy_normalizer ==
    Normalizer({"projects", "deployments", "servers", "app_domains"},
               {<<"projects", "servers">>, <<"projects", "deployments">>,
                <<"projects", "app_domains">>})

cloudflare_descriptor ==
    Descriptor({"full", "targeted"},
               {"accounts", "zones", "dns_records", "tunnels", "workers"},
               {<<"accounts", "zones">>, <<"zones", "dns_records">>,
                <<"accounts", "tunnels">>, <<"accounts", "workers">>})

\* Mutant: the relation from a zone to its records is not registered.
cloudflare_normalizer_less ==
    Normalizer({"accounts", "zones", "dns_records", "tunnels", "workers"},
               {<<"accounts", "zones">>, <<"accounts", "tunnels">>, <<"accounts", "workers">>})
cloudflare_normalizer ==
    Normalizer({"accounts", "zones", "dns_records", "tunnels", "workers"},
               {<<"accounts", "zones">>, <<"accounts", "tunnels">>,
                <<"accounts", "workers">>, <<"zones", "dns_records">>})

supabase_managed_descriptor ==
    Descriptor({"full", "targeted"}, {"organizations", "projects"},
               {<<"organizations", "projects">>})
supabase_managed_normalizer ==
    Normalizer({"organizations", "projects"}, {<<"organizations", "projects">>})

\* The application runs neither this connector nor the fixture.
supabase_self_hosted_descriptor ==
    Descriptor({"full", "targeted"}, {"instance", "tables"}, {<<"instance", "tables">>})
fixture_descriptor ==
    Descriptor({"full", "incremental", "targeted"}, {"fixture"}, {<<"fixture", "fixture">>})

CloudKinds == {"compute", "vpc", "subnet", "security_group", "balancer", "records", "public_ip"}
CloudRelations ==
    {<<"vpc", "subnet">>, <<"vpc", "security_group">>, <<"compute", "public_ip">>}
aliyun_descriptor == Descriptor({"full", "targeted"}, CloudKinds, CloudRelations)
aliyun_normalizer == Normalizer(CloudKinds, CloudRelations)
tencent_descriptor == Descriptor({"full", "targeted"}, CloudKinds, CloudRelations)
tencent_normalizer == Normalizer(CloudKinds, CloudRelations)

-----------------------------------------------------------------------------
\* The connectors of the application, which has a normalizer for each of them.
Application == {"github", "ssh", "dokploy", "cloudflare", "supabase-managed",
                "aliyun", "tencent"}

NormalizerOf(c) ==
    CASE c = "github" -> github_normalizer
      [] c = "ssh" -> ssh_normalizer
      [] c = "dokploy" -> dokploy_normalizer
      [] c = "cloudflare" -> cloudflare_normalizer
      [] c = "supabase-managed" -> supabase_managed_normalizer
      [] c = "aliyun" -> aliyun_normalizer
      [] c = "tencent" -> tencent_normalizer

DescriptorOf(c) ==
    CASE c = "github" -> github_descriptor
      [] c = "ssh" -> ssh_descriptor
      [] c = "dokploy" -> dokploy_descriptor
      [] c = "cloudflare" -> cloudflare_descriptor
      [] c = "supabase-managed" -> supabase_managed_descriptor
      [] c = "supabase-self-hosted" -> supabase_self_hosted_descriptor
      [] c = "aliyun" -> aliyun_descriptor
      [] c = "tencent" -> tencent_descriptor
      [] OTHER -> fixture_descriptor

\* The kinds of what a module is read into: the domains of the clouds and the
\* uptime of a host are no resources of their own.
KindsOf(module) ==
    CASE module \in {"domains", "uptime"} -> {}
      [] module = "repository" -> {"repositories"}
      [] OTHER -> {module}

\* Normalizer::normalize_resource and normalize_relation know everything in a
\* batch that was read from these modules.
Registered(c, modules, relations) ==
    c \in Application =>
      /\ UNION {KindsOf(x) : x \in modules} \subseteq NormalizerOf(c).kinds
      /\ \A r \in relations :
            KindsOf(r[1]) \X KindsOf(r[2]) \subseteq NormalizerOf(c).relations

=============================================================================
