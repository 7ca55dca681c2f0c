----------------------------- MODULE Templates -----------------------------
(***************************************************************************)
(* The log lines of datagen/src/templates.rs, as far as their length goes. *)
(* A text is the pair of its smallest and its largest length in bytes, a   *)
(* pool of texts too, a template the literal characters of its format      *)
(* string and its slots.                                                   *)
(***************************************************************************)
EXTENDS Integers, Sequences, FiniteSetsExt, SequencesExt

Exactly(n) == <<n, n>>
Template(literal, slots) ==
  <<literal + FoldSeq(LAMBDA s, n : s[1] + n, 0, slots),
    literal + FoldSeq(LAMBDA s, n : s[2] + n, 0, slots)>>
OneOf(texts) == <<Min({t[1] : t \in texts}), Max({t[2] : t \in texts})>>

-----------------------------------------------------------------------------
(* The pools a slot is picked from *)

LEVELS_LOWER == <<4, 5>>
LEVELS_UPPER == Exactly(5)
GLOG_PREFIX == Exactly(1)
COMPONENTS == <<5, 19>>
KLOG_FUNCS == <<5, 10>>
GO_MODULE_PATHS == <<31, 98>>
RUST_MODULE_PATHS == <<18, 41>>
K8S_RESOURCES == <<7, 25>>
K8S_PLURALS == <<4, 46>>
NAMESPACES == <<4, 13>>
SERVICE_ACCOUNTS == <<5, 29>>
ORG_NAMES == <<20, 26>>
STREAM_NAMES == <<4, 15>>
HTTP_VERSIONS == Exactly(8)
NGINX_USER_AGENTS == <<10, 117>>
NGINX_REFERERS == <<1, 42>>
HTTP_METHODS == <<3, 7>>
HTTP_STATUSES == Exactly(3)
GRPC_SERVICES == <<17, 27>>
GRPC_METHODS == <<5, 14>>
GRPC_CODES == <<2, 19>>
DB_TABLES == <<5, 14>>
DB_OPS == Exactly(6)
DB_NAMES == <<5, 10>>
SIMPLE_MESSAGES == <<14, 61>>
QUERIER_KINDS == <<6, 12>>
ROLES == <<6, 12>>
EXCEPTIONS == <<43, 107>>
STACK_FRAMES == <<36, 107>>

rand_timestamp_iso == Exactly(24)
rand_glog_ts == Exactly(20)
rand_nginx_ts == Exactly(28)
rand_ip == <<8, 14>>
rand_uuid == Exactly(36)
rand_hex(len) == Exactly(len)
rand_parquet_id == Exactly(19)

\* The paths of API_PATH_TEMPLATES differ in the placeholders they hold; the
\* shortest and the longest of each kind, with what fill_api_path() puts there.
API_PATH_TEMPLATES ==
  [plain |-> <<7, 72>>, org |-> <<11, 30>>, stream |-> <<12, 13>>, uuid |-> Exactly(24)]
fill_api_path ==
  OneOf({API_PATH_TEMPLATES.plain,
         Template(0, <<API_PATH_TEMPLATES.org, ORG_NAMES>>),
         Template(0, <<API_PATH_TEMPLATES.stream, ORG_NAMES, STREAM_NAMES>>),
         Template(0, <<API_PATH_TEMPLATES.uuid, rand_uuid>>)})

-----------------------------------------------------------------------------
(* The templates; a number is the pair of its digits *)

tpl_nginx_access ==
  LET user == <<1, 16>>
      body_bytes == <<2, 5>>
      upstream_addr == Template(1, <<rand_ip, Exactly(4)>>)
      seconds == Exactly(5)
  IN  Template(51, <<rand_ip, user, rand_nginx_ts, HTTP_METHODS, fill_api_path,
        HTTP_VERSIONS, HTTP_STATUSES, body_bytes, NGINX_REFERERS,
        NGINX_USER_AGENTS, <<2, 4>>, seconds, upstream_addr, body_bytes,
        seconds, HTTP_STATUSES, rand_hex(32)>>)

tpl_klog ==
  Template(181, <<rand_timestamp_iso, <<2, 3>>, LEVELS_LOWER, COMPONENTS, KLOG_FUNCS,
    GO_MODULE_PATHS, K8S_RESOURCES, K8S_PLURALS, NAMESPACES, SERVICE_ACCOUNTS, K8S_PLURALS>>)

tpl_glog_reflector ==
  Template(115, <<GLOG_PREFIX, rand_glog_ts, <<1, 2>>, <<2, 3>>, GO_MODULE_PATHS,
    K8S_RESOURCES, K8S_RESOURCES, K8S_PLURALS>>)

\* The seven payloads of a Rust log line.
EnvlogPayloads ==
  {Template(117, <<Exactly(1), rand_uuid, QUERIER_KINDS, rand_hex(6), rand_ip,
                   Exactly(4), ROLES, <<1, 2>>>>),
   Template(43, <<<<1, 3>>, <<1, 3>>>>),
   Template(63, <<Exactly(1), <<4, 5>>, <<1, 2>>, Exactly(3)>>),
   Template(53, <<<<1, 5>>, <<1, 4>>, <<1, 7>>>>),
   Template(77, <<ORG_NAMES, STREAM_NAMES, rand_parquet_id, <<3, 6>>>>),
   Template(110, <<ORG_NAMES, STREAM_NAMES, rand_parquet_id,
                   ORG_NAMES, STREAM_NAMES, rand_parquet_id>>),
   Template(137, <<STREAM_NAMES, Exactly(16), Exactly(16), <<2, 4>>>>)}

tpl_rust_envlog ==
  Template(5, <<rand_timestamp_iso, LEVELS_UPPER, RUST_MODULE_PATHS, OneOf(EnvlogPayloads)>>)

tpl_simple == SIMPLE_MESSAGES

tpl_db_query ==
  Template(73, <<DB_OPS, DB_TABLES, <<1, 5>>, <<4, 5>>, <<1, 6>>, DB_NAMES, ORG_NAMES,
    rand_hex(16)>>)

tpl_grpc ==
  LET peer == Template(1, <<rand_ip, Exactly(5)>>)
      authority == <<6, 12>>
  IN  Template(87, <<GRPC_SERVICES, GRPC_METHODS, peer, <<1, 4>>, GRPC_CODES, rand_uuid,
        authority>>)

tpl_exception ==
  Template(27, <<EXCEPTIONS, STACK_FRAMES, STACK_FRAMES, STACK_FRAMES>>)

\* The templates a line is drawn from, and how many of a hundred draws each gets.
generate_log_line ==
  <<tpl_nginx_access, tpl_rust_envlog, tpl_klog, tpl_glog_reflector, tpl_db_query,
    tpl_grpc, tpl_exception, tpl_simple>>
TemplateWeights == <<25, 20, 15, 10, 10, 8, 5, 7>>
=============================================================================
