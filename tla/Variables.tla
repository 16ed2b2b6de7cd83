----------------------------- MODULE Variables -----------------------------
(***************************************************************************)
(* The variables of re_variables.c: what each generator adds to the list   *)
(* of targets of a rule, and the table that says of every variable whether *)
(* it takes a parameter, whether transformed values of it may be cached    *)
(* and from which phase on it is available.                                *)
(*                                                                         *)
(* Strings are sequences of bytes.  msr is a record with the fields the    *)
(* generators read; plain fields are in msr.field, Null is NULL.  A target *)
(* has the length the generator claims for its value, which the operators  *)
(* trust.  Texts of alerts, times and XML nodes are values of msr; what    *)
(* APR and libxml compute of them is not modelled.                         *)
(***************************************************************************)
EXTENDS Transformations

CONSTANTS Null,           \* NULL
          Regexec(_, _),  \* msc_regexec: "match", "nomatch" or "error"
          Compiles(_)     \* msc_pregcomp accepts the expression

Target(name, value, len) == [name |-> name, value |-> value, len |-> len]

RECURSIVE Decimal(_)
Decimal(n) == IF n < 10 THEN <<Zero + n>> ELSE Append(Decimal(n \div 10), Zero + (n % 10))
Pad2(n) == IF n < 10 THEN <<Zero>> \o Decimal(n) ELSE Decimal(n)
SumOver(seq) == FoldLeft(LAMBDA a, b : a + b, 0, seq)

var_simple_generate_ex(var, value, len) ==
    IF value = Null THEN <<>> ELSE <<Target(<<var.name>>, value, len)>>

var_simple_generate(var, value) ==
    IF value = Null THEN <<>> ELSE var_simple_generate_ex(var, value, Len(CString(value)))

Text(var, value) == <<Target(<<var.name>>, value, Len(value))>>
Flag(var, on) == var_simple_generate(var, IF on THEN <<Zero + 1>> ELSE <<Zero>>)

(***************************************************************************)
(* Lists: an entry is taken without a parameter, if the regular expression *)
(* does not say "no match" (an error is a match), or if the names are the  *)
(* same but for case and up to a NUL.                                      *)
(***************************************************************************)
Folded(name) == lowercase(CString(name)).out

IsRegex(param) == Len(param) > 2 /\ param[1] = Slash /\ Last(param) = Slash
Pattern(param) == SubSeq(param, 2, Len(param) - 1)

\* FALSE refuses the rule.
var_generic_list_validate(param) ==
    param = Null \/ ~ IsRegex(param) \/ Compiles(Pattern(param))

var_env_validate(param) == param # Null /\ ~ IsRegex(param)
var_xml_validate(param) == TRUE

Selected(var, name) ==
    \/ var.param = Null
    \/ IF IsRegex(var.param) THEN Regexec(Pattern(var.param), name) # "nomatch"
       ELSE Folded(name) = Folded(var.param)

\* The values of the entries, or their names.
ListOf(var, entries, prefix) ==
    LET sel == SelectSeq(entries, LAMBDA e : Selected(var, e.name))
    IN  [i \in DOMAIN sel |-> Target(<<prefix, sel[i].name>>, sel[i].value, Len(sel[i].value))]

NamesOf(var, entries, prefix) ==
    ListOf(var, [i \in DOMAIN entries |-> [name |-> entries[i].name, value |-> entries[i].name]],
           prefix)

\* Tables of C strings: the length is the string's.
Strings(entries) ==
    [i \in DOMAIN entries |-> [name |-> CString(entries[i].name), value |-> CString(entries[i].value)]]

FromOrigin(msr, origin) == SelectSeq(msr.arguments, LAMBDA a : a.origin = origin)

var_args_generate(msr, var) == ListOf(var, msr.arguments, "ARGS")
var_args_combined_size_generate(msr, var) ==
    Text(var, Decimal(SumOver([i \in DOMAIN msr.arguments |->
                  Len(msr.arguments[i].name) + Len(msr.arguments[i].value)])))
var_args_names_generate(msr, var) == NamesOf(var, msr.arguments, "ARGS_NAMES")
var_args_get_generate(msr, var) == ListOf(var, FromOrigin(msr, "QUERY_STRING"), "ARGS_GET")
var_args_get_names_generate(msr, var) ==
    NamesOf(var, FromOrigin(msr, "QUERY_STRING"), "ARGS_GET_NAMES")
var_args_post_generate(msr, var) == ListOf(var, FromOrigin(msr, "BODY"), "ARGS_POST")
var_args_post_names_generate(msr, var) ==
    NamesOf(var, FromOrigin(msr, "BODY"), "ARGS_POST_NAMES")

var_tx_generate(msr, var) == ListOf(var, msr.tx_vars, "TX")
var_geo_generate(msr, var) == ListOf(var, msr.geo_vars, "GEO")

Collection(msr, var, name, prefix) ==
    IF name \in DOMAIN msr.collections THEN ListOf(var, msr.collections[name], prefix) ELSE <<>>

var_ip_generate(msr, var) == Collection(msr, var, "ip", "IP")
var_session_generate(msr, var) == Collection(msr, var, "session", "SESSION")
var_user_generate(msr, var) == Collection(msr, var, "user", "USER")
var_global_generate(msr, var) == Collection(msr, var, "global", "GLOBAL")
var_resource_generate(msr, var) == Collection(msr, var, "resource", "RESOURCE")

var_request_cookies_generate(msr, var) ==
    ListOf(var, Strings(msr.request_cookies), "REQUEST_COOKIES")
var_request_cookies_names_generate(msr, var) ==
    NamesOf(var, Strings(msr.request_cookies), "REQUEST_COOKIES_NAMES")
var_request_headers_generate(msr, var) ==
    ListOf(var, Strings(msr.request_headers), "REQUEST_HEADERS")
var_request_headers_names_generate(msr, var) ==
    NamesOf(var, Strings(msr.request_headers), "REQUEST_HEADERS_NAMES")
var_response_headers_generate(msr, var) ==
    IF msr.response_headers = Null THEN <<>>
    ELSE ListOf(var, Strings(msr.response_headers), "RESPONSE_HEADERS")
\* reads the table whether or not there is one
var_response_headers_names_generate(msr, var) ==
    NamesOf(var, Strings(msr.response_headers), "RESPONSE_HEADERS_NAMES")
var_perf_rules_generate(msr, var) == ListOf(var, Strings(msr.perf_rules), "PERF_RULES")

\* The variables that matched, without the ones that come from these two
\* lists themselves; they keep their full names.  The value is cut at its
\* first NUL, its length is not.
MatchedTargets(msr, var) ==
    SelectSeq(msr.matched_vars, LAMBDA m :
        /\ Selected(var, m.text)
        /\ m.name[1] \notin {"MATCHED_VARS", "MATCHED_VARS_NAMES"})

var_matched_vars_names_generate(msr, var) ==
    LET m == MatchedTargets(msr, var)
    IN  [i \in DOMAIN m |-> Target(m[i].name, CString(m[i].text), Len(CString(m[i].text)))]
var_matched_vars_generate(msr, var) ==
    LET m == MatchedTargets(msr, var)
    IN  [i \in DOMAIN m |-> Target(m[i].name, CString(m[i].value), Len(m[i].value))]
var_matched_var_generate(msr, var) ==
    var_simple_generate_ex(var, msr.matched_var.value, Len(msr.matched_var.value))
var_matched_var_name_generate(msr, var) ==
    var_simple_generate_ex(var, msr.matched_var.name, Len(msr.matched_var.name))

(***************************************************************************)
(* Uploaded files.                                                         *)
(***************************************************************************)
FileParts(msr) ==
    IF msr.mpd = Null THEN <<>>
    ELSE SelectSeq(msr.mpd.parts, LAMBDA p : p.type = "MULTIPART_FILE")

FilesOf(msr, var, prefix, Value(_)) ==
    ListOf(var, [i \in DOMAIN FileParts(msr) |-> [name  |-> FileParts(msr)[i].name,
                                                   value |-> Value(FileParts(msr)[i])]], prefix)

StoredParts(msr, var) ==
    SelectSeq(FileParts(msr), LAMBDA p : p.tmp_file_name # Null /\ Selected(var, p.name))

\* The file is read block by block as text: each block is cut at its first
\* NUL, the length is that of the file.  (Block: 1023 bytes in the code.)
Block == 2
RECURSIVE AsText(_)
AsText(bytes) ==
    IF Len(bytes) <= Block THEN CString(bytes)
    ELSE CString(SubSeq(bytes, 1, Block)) \o AsText(SubSeq(bytes, Block + 1, Len(bytes)))

var_files_tmp_contents_generate(msr, var) ==
    LET p == SelectSeq(StoredParts(msr, var), LAMBDA q : q.content # Null)
    IN  [i \in DOMAIN p |-> Target(<<"FILES_TMP_CONTENT", p[i].name>>,
             IF p[i].content = <<>> THEN Null ELSE AsText(p[i].content), Len(p[i].content))]

var_files_tmpnames_generate(msr, var) ==
    LET p == StoredParts(msr, var)
    IN  [i \in DOMAIN p |-> Target(<<"FILES_TMPNAMES", p[i].name>>, p[i].tmp_file_name,
                                   Len(p[i].tmp_file_name))]
var_files_generate(msr, var) == FilesOf(msr, var, "FILES", LAMBDA p : p.filename)
var_files_sizes_generate(msr, var) ==
    FilesOf(msr, var, "FILES_SIZES", LAMBDA p : Decimal(p.tmp_file_size))
var_files_names_generate(msr, var) ==
    FilesOf(msr, [var EXCEPT !.param = Null], "FILES_NAMES", LAMBDA p : p.name)
var_files_combined_size_generate(msr, var) ==
    Text(var, Decimal(SumOver([i \in DOMAIN FileParts(msr) |-> FileParts(msr)[i].tmp_file_size])))

(***************************************************************************)
(* Flags of the multipart parser.                                          *)
(***************************************************************************)
Raised(msr, flag) == msr.mpd # Null /\ flag \in msr.mpd.flags

var_multipart_boundary_quoted_generate(msr, var) == Flag(var, Raised(msr, "boundary_quoted"))
var_multipart_boundary_whitespace_generate(msr, var) ==
    Flag(var, Raised(msr, "boundary_whitespace"))
var_multipart_data_after_generate(msr, var) == Flag(var, Raised(msr, "data_after"))
var_multipart_data_before_generate(msr, var) == Flag(var, Raised(msr, "data_before"))
var_multipart_header_folding_generate(msr, var) == Flag(var, Raised(msr, "header_folding"))
var_multipart_crlf_line_generate(msr, var) == Flag(var, Raised(msr, "crlf_line"))
var_multipart_crlf_lf_lines_generate(msr, var) ==
    Flag(var, Raised(msr, "lf_line") /\ Raised(msr, "crlf_line"))
var_multipart_lf_line_generate(msr, var) == Flag(var, Raised(msr, "lf_line"))
var_multipart_missing_semicolon_generate(msr, var) == Flag(var, Raised(msr, "missing_semicolon"))
var_multipart_invalid_part_generate(msr, var) == Flag(var, Raised(msr, "invalid_part"))
var_multipart_invalid_quoting_generate(msr, var) == Flag(var, Raised(msr, "invalid_quoting"))
var_multipart_invalid_header_folding_generate(msr, var) ==
    Flag(var, Raised(msr, "invalid_header_folding"))
var_multipart_file_limit_exceeded_generate(msr, var) ==
    Flag(var, Raised(msr, "file_limit_exceeded"))
var_multipart_unmatched_boundary_generate(msr, var) == Flag(var, Raised(msr, "unmatched_boundary"))

StrictFlags == {"error", "boundary_quoted", "boundary_whitespace", "data_before", "data_after",
                "header_folding", "lf_line", "missing_semicolon", "invalid_quoting",
                "invalid_part", "invalid_header_folding", "file_limit_exceeded"}
var_multipart_strict_error_generate(msr, var) ==
    Flag(var, \E f \in StrictFlags : Raised(msr, f))

(***************************************************************************)
(* The rule, the environment, the bodies, the document.                    *)
(***************************************************************************)
\* Of a chained rule the fields of the chain's first rule are taken.
var_rule_generate(msr, var, rule) ==
    LET starter == IF rule.chain_starter # Null THEN rule.chain_starter ELSE rule.actionset
        known   == {f \in DOMAIN starter : starter[f] # Null /\ Folded(var.param) = Folded(f)}
    IN  IF known = {} THEN <<>>
        ELSE var_simple_generate(var, starter[CHOOSE f \in known : TRUE])

get_env_var(msr, name) ==
    LET where == SelectSeq(<<msr.notes, msr.subprocess_env, msr.environ>>,
                           LAMBDA t : name \in DOMAIN t)
    IN  IF where = <<>> THEN Null ELSE where[1][name]

var_env_generate(msr, var) == var_simple_generate(var, get_env_var(msr, var.param))
UNIQUE_ID == <<85, 73, 68>>
var_uniqueid_generate(msr, var) == var_simple_generate(var, get_env_var(msr, UNIQUE_ID))

var_request_uri_generate(msr, var) ==
    var_simple_generate(var, IF msr.field["query"] = Null THEN msr.field["path"]
                             ELSE msr.field["path"] \o <<63>> \o msr.field["query"])

OrEmpty(value) == IF value = Null THEN <<>> ELSE value
var_reqbody_processor_generate(msr, var) ==
    Text(var, CString(OrEmpty(msr.field["msc_reqbody_processor"])))
var_reqbody_processor_error_msg_generate(msr, var) ==
    Text(var, CString(OrEmpty(msr.field["msc_reqbody_error_msg"])))

file_basename(path) ==
    LET after(s, c) == LET S == {i \in DOMAIN s : s[i] = c}
                       IN  IF S = {} THEN s
                           ELSE SubSeq(s, 1 + CHOOSE i \in S : \A j \in S : j <= i, Len(s))
    IN  IF path = Null THEN Null ELSE after(after(path, Slash), Backslash)

var_request_basename_generate(msr, var) == var_simple_generate(var, file_basename(msr.field["path"]))
var_script_basename_generate(msr, var) ==
    var_simple_generate(var, file_basename(msr.field["filename"]))

\* Every header as "name: value" and a newline, then an empty line.
msc_headers_to_buffer(headers) ==
    FoldLeft(LAMBDA b, h : b \o h.name \o <<58, Space>> \o h.value \o <<LF>>, <<>>, Strings(headers))
        \o <<LF>>

\* The buffer ends with a NUL that counts; without a body in one piece its
\* place stays filled with whatever it held (NULs here).
var_full_request_generate(msr, var) ==
    LET body == IF msr.reqbody_buffer # Null THEN msr.reqbody_buffer
                ELSE [i \in 1..msr.reqbody_length |-> 0]
        all  == msr.field["request_line"] \o <<LF, LF>>
                    \o msc_headers_to_buffer(msr.request_headers) \o body \o <<0>>
    IN  var_simple_generate_ex(var, all, Len(all))

\* The request line is not counted here.
var_full_request_length_generate(msr, var) ==
    var_simple_generate(var, Decimal(Len(msc_headers_to_buffer(msr.request_headers))
                                         + msr.reqbody_length + 1))

var_request_body_generate(msr, var) ==
    var_simple_generate_ex(var, msr.reqbody_buffer, msr.reqbody_length)
var_request_body_length_generate(msr, var) == var_simple_generate(var, Decimal(msr.reqbody_length))

Stream(var, data) == IF data = Null THEN <<>> ELSE var_simple_generate_ex(var, data, Len(data))
var_stream_output_generate(msr, var) == Stream(var, msr.stream_output_data)
var_stream_input_generate(msr, var) == Stream(var, msr.stream_input_data)
var_response_body_generate(msr, var) == Stream(var, msr.resbody_data)

\* No document, the whole tree without a parameter, else the nodes of the
\* expression; what cannot be evaluated is an error (Null).
var_xml_generate(msr, var) ==
    IF msr.xml = Null THEN <<>>
    ELSE IF var.param = Null THEN Text(var, msr.xml.tree)
    ELSE IF ~ msr.xml.namespaces_ok \/ msr.xml.nodes = Null THEN Null
    ELSE [i \in DOMAIN msr.xml.nodes |->
             Target(<<var.name>>, msr.xml.nodes[i], Len(msr.xml.nodes[i]))]

var_webserver_error_log_generate(msr, var) ==
    LET m == SelectSeq(msr.error_messages, LAMBDA e : e # Null)
    IN  [i \in DOMAIN m |-> Target(<<var.name>>, m[i], Len(m[i]))]

(***************************************************************************)
(* Time and performance.                                                   *)
(***************************************************************************)
var_duration_generate(msr, var) == Text(var, Decimal(msr.now - msr.request_time))
TmYear(tm) == Pad2(tm.year \div 100 + 19) \o Pad2(tm.year % 100)
var_time_generate(msr, var) ==
    LET tm == msr.tm
    IN  Text(var, TmYear(tm) \o Pad2(tm.mon + 1) \o Pad2(tm.mday)
                  \o Pad2(tm.hour) \o Pad2(tm.min) \o Pad2(tm.sec))
var_time_year_generate(msr, var) == Text(var, TmYear(msr.tm))
var_time_wday_generate(msr, var) == Text(var, Decimal(msr.tm.wday))
var_time_sec_generate(msr, var) == Text(var, Pad2(msr.tm.sec))
var_time_min_generate(msr, var) == Text(var, Pad2(msr.tm.min))
var_time_hour_generate(msr, var) == Text(var, Pad2(msr.tm.hour))
var_time_mon_generate(msr, var) == Text(var, Pad2(msr.tm.mon + 1))
var_time_day_generate(msr, var) == Text(var, Pad2(msr.tm.mday))
var_time_epoch_generate(msr, var) == Text(var, Decimal(msr.now))

\* Reading the storage is part of the phases.
calculate_perf_combined(msr) ==
    SumOver(msr.time_phase) + msr.time_storage_write + msr.time_logging + msr.time_gc
format_all_performance_variables(msr) ==
    <<calculate_perf_combined(msr)>> \o msr.time_phase
        \o <<msr.time_storage_read, msr.time_storage_write, msr.time_logging, msr.time_gc>>
generate_performance_variable(msr, var, value) == Text(var, Decimal(value))
var_perf_all_generate(msr, var) == Text(var, format_all_performance_variables(msr))
var_perf_combined_generate(msr, var) ==
    generate_performance_variable(msr, var, calculate_perf_combined(msr))
var_perf_gc_generate(msr, var) == generate_performance_variable(msr, var, msr.time_gc)
var_perf_phases_generate(msr, var, n) == generate_performance_variable(msr, var, msr.time_phase[n])
var_perf_sread_generate(msr, var) == generate_performance_variable(msr, var, msr.time_storage_read)
var_perf_swrite_generate(msr, var) ==
    generate_performance_variable(msr, var, msr.time_storage_write)
var_perf_logging_generate(msr, var) == generate_performance_variable(msr, var, msr.time_logging)

(***************************************************************************)
(* Variables that show one field as it is, as a number or as a flag.       *)
(***************************************************************************)

Hex(n) == IF n < 10 THEN Zero + n ELSE 87 + n
Hex4(n) == <<Hex(n \div 4096), Hex((n \div 256) % 16), Hex((n \div 16) % 16), Hex(n % 16)>>
FlagDigit(on) == IF on THEN <<Zero + 1>> ELSE <<Zero>>

RawUriField(msr) == [REQUEST_URI_RAW |-> msr.field["unparsed_uri"]]

SdbmField(msr) == [SDBM_DELETE_ERROR |-> Decimal(msr.num["msc_sdbm_delete_error"])]

ReqbodyErrorFields(msr) ==
    LET error == Decimal(msr.num["msc_reqbody_error"])
    IN  [REQBODY_PROCESSOR_ERROR |-> error, REQBODY_ERROR |-> error]

\* Under mod_remoteip the transaction's address becomes the user agent's.
remote_addr(msr) ==
    IF msr.mod_remoteip /\ msr.field["useragent_ip"] # Null THEN msr.field["useragent_ip"]
    ELSE msr.field["remote_addr"]

AnyAddress == <<48, 46, 48, 46, 48, 46, 48>>
RemoteFields(msr) ==
    [USERAGENT_IP |-> IF msr.field["useragent_ip"] = Null THEN AnyAddress
                      ELSE msr.field["useragent_ip"],
     REMOTE_ADDR  |-> remote_addr(msr),
     REMOTE_HOST  |-> msr.field["remote_host"],
     REMOTE_PORT  |-> Decimal(msr.num["remote_port"]),
     REMOTE_USER  |-> msr.field["remote_user"]]

SeverityField(msr) == [HIGHEST_SEVERITY |-> Decimal(msr.num["highest_severity"])]

BuildFields(msr) ==
    [MODSEC_BUILD       |-> msr.field["modsec_build"],
     MULTIPART_FILENAME |-> msr.field["multipart_filename"],
     MULTIPART_NAME     |-> msr.field["multipart_name"]]

ErrorFields(msr) ==
    [URLENCODED_ERROR    |-> FlagDigit(msr.num["urlencoded_error"] # 0),
     INBOUND_DATA_ERROR  |-> FlagDigit(msr.num["inbound_error"] # 0),
     OUTBOUND_DATA_ERROR |-> FlagDigit(msr.num["outbound_error"] # 0)]

QueryField(msr) == [QUERY_STRING |-> msr.field["query_string"]]

RequestFields(msr) ==
    [REQUEST_FILENAME |-> msr.field["path"],
     REQUEST_LINE     |-> msr.field["request_line"],
     REQUEST_METHOD   |-> msr.field["request_method"],
     REQUEST_PROTOCOL |-> msr.field["request_protocol"],
     SERVER_ADDR      |-> msr.field["local_addr"],
     SERVER_NAME      |-> msr.field["hostname"],
     SERVER_PORT      |-> Decimal(msr.num["local_port"])]

ScriptFields(msr) ==
    [SCRIPT_FILENAME  |-> msr.field["filename"],
     SCRIPT_GID       |-> Decimal(msr.num["group"]),
     SCRIPT_GROUPNAME |-> msr.field["group_name"],   \* Null: the system does not know it
     SCRIPT_MODE      |-> Hex4(msr.num["protection"]),
     SCRIPT_UID       |-> Decimal(msr.num["user"]),
     SCRIPT_USERNAME  |-> msr.field["user_name"],
     AUTH_TYPE        |-> msr.field["ap_auth_type"],
     PATH_INFO        |-> msr.field["path_info"]]

ResponseFields(msr) ==
    [STATUS_LINE             |-> msr.field["status_line"],
     RESPONSE_PROTOCOL       |-> msr.field["response_protocol"],
     RESPONSE_STATUS         |-> Decimal(msr.num["response_status"]),
     RESPONSE_CONTENT_TYPE   |-> msr.field["content_type"],
     RESPONSE_CONTENT_LENGTH |-> Decimal(msr.num["clength"]),
     USERID                  |-> msr.field["userid"],
     SESSIONID               |-> msr.field["sessionid"],
     WEBAPPID                |-> msr.field["webappid"]]

FieldGroups(msr) ==
    <<RawUriField(msr), SdbmField(msr), ReqbodyErrorFields(msr), RemoteFields(msr),
      SeverityField(msr), BuildFields(msr), ErrorFields(msr), QueryField(msr),
      RequestFields(msr), ScriptFields(msr), ResponseFields(msr)>>

\* What a variable of these groups shows; <<>> for the other variables.
FieldVariable(msr, var) ==
    LET groups == SelectSeq(FieldGroups(msr), LAMBDA g : var.name \in DOMAIN g)
    IN  IF groups = <<>> THEN <<>> ELSE var_simple_generate(var, groups[1][var.name])

(***************************************************************************)
(* The table of variables: name, kind, fewest and most parameters, what    *)
(* validates the parameter, whether transformed values may be cached, and  *)
(* the phase from which on the variable is available.                      *)
(***************************************************************************)
VAR_SIMPLE == "simple"
VAR_LIST   == "list"
VAR_CACHE  == TRUE
VAR_DONT_CACHE == FALSE

msre_engine_variable_register(name, type, argc_min, argc_max, validate, is_cacheable, availability) ==
    [name |-> name, type |-> type, argc_min |-> argc_min, argc_max |-> argc_max,
     validate |-> validate, is_cacheable |-> is_cacheable, availability |-> availability]

\* The three shapes most variables have.
Simple(names, cache, phase) ==
    {msre_engine_variable_register(n, VAR_SIMPLE, 0, 0, "none", cache, phase) : n \in names}
List(names, cache, phase) ==
    {msre_engine_variable_register(n, VAR_LIST, 0, 1, "generic", cache, phase) : n \in names}
Keyed(names, phase) ==
    {msre_engine_variable_register(n, VAR_LIST, 1, 1, "generic", VAR_DONT_CACHE, phase) : n \in names}

Registered1 ==
           List({"ARGS", "ARGS_GET", "ARGS_GET_NAMES", "ARGS_NAMES"}, VAR_CACHE, 1)
    \union List({"ARGS_POST", "ARGS_POST_NAMES", "FILES"}, VAR_CACHE, 2)
    \union Simple({"AUTH_TYPE"}, VAR_CACHE, 2)
    \union List({"FILES_SIZES"}, VAR_DONT_CACHE, 2)
    \union {msre_engine_variable_register("ARGS_COMBINED_SIZE", VAR_LIST, 0, 0, "none", VAR_DONT_CACHE, 1),
            msre_engine_variable_register("ENV", VAR_LIST, 0, 1, "env", VAR_DONT_CACHE, 1),
            msre_engine_variable_register("FILES_COMBINED_SIZE", VAR_LIST, 0, 0, "none", VAR_DONT_CACHE, 2),
            msre_engine_variable_register("FILES_NAMES", VAR_LIST, 0, 0, "none", VAR_CACHE, 2)}

Registered2 ==
           List({"FILES_TMPNAMES", "FILES_TMP_CONTENT"}, VAR_CACHE, 2)
    \union List({"GEO"}, VAR_DONT_CACHE, 1)
    \union Keyed({"GLOBAL", "IP"}, 1)
    \union Simple({"HIGHEST_SEVERITY", "MATCHED_VAR", "MATCHED_VAR_NAME"}, VAR_DONT_CACHE,
                   1)
    \union Simple({"MODSEC_BUILD"}, VAR_CACHE, 1)
    \union Simple({"MULTIPART_FILENAME", "MULTIPART_NAME"}, VAR_CACHE, 2)
    \union Simple({"MULTIPART_BOUNDARY_QUOTED", "MULTIPART_BOUNDARY_WHITESPACE"},
                   VAR_DONT_CACHE, 2)

Registered3 ==
           Simple({"MULTIPART_DATA_AFTER", "MULTIPART_DATA_BEFORE",
                   "MULTIPART_HEADER_FOLDING", "MULTIPART_CRLF_LINE", "MULTIPART_CRLF_LF_LINES",
                   "MULTIPART_LF_LINE", "MULTIPART_MISSING_SEMICOLON", "MULTIPART_INVALID_PART",
                   "MULTIPART_INVALID_QUOTING", "MULTIPART_INVALID_HEADER_FOLDING",
                   "MULTIPART_FILE_LIMIT_EXCEEDED", "MULTIPART_STRICT_ERROR",
                   "MULTIPART_UNMATCHED_BOUNDARY"}, VAR_DONT_CACHE, 2)

Registered4 ==
           Simple({"PATH_INFO", "REMOTE_HOST", "REMOTE_USER"}, VAR_CACHE, 2)
    \union Simple({"QUERY_STRING", "USERAGENT_IP", "REMOTE_ADDR"}, VAR_CACHE, 1)
    \union Simple({"REMOTE_PORT", "SDBM_DELETE_ERROR", "REQBODY_PROCESSOR_ERROR",
                   "REQBODY_PROCESSOR_ERROR_MSG", "REQBODY_ERROR"}, VAR_DONT_CACHE, 2)
    \union Keyed({"RESOURCE"}, 1)
    \union Simple({"REQBODY_PROCESSOR"}, VAR_DONT_CACHE, 1)

Registered5 ==
           Simple({"REQBODY_ERROR_MSG"}, VAR_DONT_CACHE, 2)
    \union Simple({"REQUEST_BASENAME"}, VAR_DONT_CACHE, 1)
    \union Simple({"FULL_REQUEST", "FULL_REQUEST_LENGTH", "REQUEST_BODY_LENGTH"}, VAR_CACHE,
                   2)
    \union List({"REQUEST_BODY"}, VAR_CACHE, 2)
    \union List({"MATCHED_VARS_NAMES", "MATCHED_VARS", "REQUEST_COOKIES",
                 "REQUEST_COOKIES_NAMES", "REQUEST_HEADERS", "REQUEST_HEADERS_NAMES"},
                 VAR_CACHE, 1)
    \union Simple({"REQUEST_FILENAME"}, VAR_CACHE, 1)

Registered6 ==
           Simple({"REQUEST_LINE", "REQUEST_METHOD", "REQUEST_PROTOCOL", "REQUEST_URI_RAW",
                   "UNIQUE_ID", "STREAM_INPUT_BODY"}, VAR_CACHE, 1)
    \union Simple({"REQUEST_URI"}, VAR_DONT_CACHE, 1)
    \union Simple({"STREAM_OUTPUT_BODY", "RESPONSE_BODY"}, VAR_CACHE, 4)
    \union Simple({"RESPONSE_CONTENT_LENGTH"}, VAR_DONT_CACHE, 3)
    \union Simple({"RESPONSE_CONTENT_TYPE"}, VAR_CACHE, 3)
    \union List({"RESPONSE_HEADERS", "RESPONSE_HEADERS_NAMES"}, VAR_CACHE, 3)

Registered7 ==
           Simple({"RESPONSE_PROTOCOL"}, VAR_CACHE, 3)
    \union Simple({"RESPONSE_STATUS"}, VAR_DONT_CACHE, 3)
    \union Simple({"SCRIPT_GID", "SCRIPT_BASENAME", "SCRIPT_GROUPNAME", "SCRIPT_MODE",
                   "SCRIPT_UID", "SCRIPT_USERNAME"}, VAR_DONT_CACHE, 2)
    \union Simple({"SCRIPT_FILENAME"}, VAR_CACHE, 2)
    \union Simple({"SERVER_ADDR", "SERVER_NAME"}, VAR_CACHE, 1)
    \union Simple({"SERVER_PORT"}, VAR_DONT_CACHE, 1)
    \union {msre_engine_variable_register("RULE", VAR_LIST, 1, 1, "none", VAR_DONT_CACHE, 3)}

Registered8 ==
           Keyed({"SESSION", "USER"}, 1)
    \union Simple({"SESSIONID", "USERID"}, VAR_DONT_CACHE, 3)
    \union Simple({"STATUS_LINE"}, VAR_CACHE, 3)
    \union Simple({"URLENCODED_ERROR", "PERF_ALL", "PERF_COMBINED", "PERF_GC",
                   "PERF_LOGGING"}, VAR_DONT_CACHE, 1)
    \union Simple({"INBOUND_DATA_ERROR"}, VAR_DONT_CACHE, 2)
    \union Simple({"OUTBOUND_DATA_ERROR"}, VAR_DONT_CACHE, 4)
    \union List({"PERF_RULES"}, VAR_DONT_CACHE, 1)

Registered9 ==
           Simple({"PERF_PHASE1", "PERF_PHASE2", "PERF_PHASE3", "PERF_PHASE4",
                   "PERF_PHASE5", "PERF_SREAD", "PERF_SWRITE", "DURATION", "TIME", "TIME_DAY",
                   "TIME_EPOCH", "TIME_HOUR", "TIME_MIN"}, VAR_DONT_CACHE, 1)

\* Mutant: transformed values of TX are cached.
Registered10CachesTx ==
           Simple({"TIME_MON", "TIME_SEC", "TIME_WDAY", "TIME_YEAR"}, VAR_DONT_CACHE, 1)
    \union Simple({"WEBAPPID"}, VAR_DONT_CACHE, 3)
    \union {msre_engine_variable_register("TX", VAR_LIST, 1, 1, "generic", VAR_CACHE, 1),
            msre_engine_variable_register("WEBSERVER_ERROR_LOG", VAR_LIST, 0, 0, "none", VAR_DONT_CACHE, 1),
            msre_engine_variable_register("XML", VAR_LIST, 0, 1, "xml", VAR_DONT_CACHE, 2)}

Registered10 ==
           Simple({"TIME_MON", "TIME_SEC", "TIME_WDAY", "TIME_YEAR"}, VAR_DONT_CACHE, 1)
    \union Keyed({"TX"}, 1)
    \union Simple({"WEBAPPID"}, VAR_DONT_CACHE, 3)
    \union {msre_engine_variable_register("WEBSERVER_ERROR_LOG", VAR_LIST, 0, 0, "none", VAR_DONT_CACHE, 1),
            msre_engine_variable_register("XML", VAR_LIST, 0, 1, "xml", VAR_DONT_CACHE, 2)}

VariableTable == Registered1 \union Registered2 \union Registered3 \union Registered4 \union Registered5 \union Registered6 \union Registered7 \union Registered8 \union Registered9 \union Registered10

(***************************************************************************)
(* A variable of a rule is written [modifier |-> "", "!" or "&", http,     *)
(* name, param]; http says that the name was HTTP_<name>.  Null refuses    *)
(* the rule.                                                               *)
(***************************************************************************)
msre_resolve_var(name) ==
    LET OneOf(found) == IF found = {} THEN Null ELSE CHOOSE v \in found : TRUE
    IN  OneOf({v \in VariableTable : v.name = name})

msre_create_var_ex(text) ==
    LET Create(name, param, meta) ==
            IF \/ meta = Null
               \/ text.modifier = "&" /\ meta.type = VAR_SIMPLE
               \/ param = Null /\ meta.argc_min > 0
               \/ param # Null /\ meta.argc_max = 0
            THEN Null
            ELSE [name |-> name, param |-> param, is_negated |-> text.modifier = "!",
                  is_counting |-> text.modifier = "&"]
    IN  IF text.http THEN Create("REQUEST_HEADERS", text.name, msre_resolve_var("REQUEST_HEADERS"))
        ELSE Create(text.name, text.param, msre_resolve_var(text.name))

msre_create_var(text) ==
    LET Valid(validate, param) == CASE validate = "none"    -> TRUE
                                    [] validate = "generic" -> var_generic_list_validate(param)
                                    [] validate = "env"     -> var_env_validate(param)
                                    [] validate = "xml"     -> var_xml_validate(param)
        Checked(var) == IF var = Null THEN Null
                        ELSE IF Valid(msre_resolve_var(var.name).validate, var.param) THEN var ELSE Null
    IN  Checked(msre_create_var_ex(text))

\* What a variable adds to the targets of a rule.
Generate(msr, var, rule) ==
    CASE var.name = "ARGS" -> var_args_generate(msr, var)
      [] var.name = "ARGS_COMBINED_SIZE" -> var_args_combined_size_generate(msr, var)
      [] var.name = "ARGS_GET" -> var_args_get_generate(msr, var)
      [] var.name = "ARGS_GET_NAMES" -> var_args_get_names_generate(msr, var)
      [] var.name = "ARGS_NAMES" -> var_args_names_generate(msr, var)
      [] var.name = "ARGS_POST" -> var_args_post_generate(msr, var)
      [] var.name = "ARGS_POST_NAMES" -> var_args_post_names_generate(msr, var)
      [] var.name = "ENV" -> var_env_generate(msr, var)
      [] var.name = "FILES" -> var_files_generate(msr, var)
      [] var.name = "FILES_COMBINED_SIZE" -> var_files_combined_size_generate(msr, var)
      [] var.name = "FILES_NAMES" -> var_files_names_generate(msr, var)
      [] var.name = "FILES_SIZES" -> var_files_sizes_generate(msr, var)
      [] var.name = "FILES_TMPNAMES" -> var_files_tmpnames_generate(msr, var)
      [] var.name = "FILES_TMP_CONTENT" -> var_files_tmp_contents_generate(msr, var)
      [] var.name = "GEO" -> var_geo_generate(msr, var)
      [] var.name = "GLOBAL" -> var_global_generate(msr, var)
      [] var.name = "IP" -> var_ip_generate(msr, var)
      [] var.name = "MATCHED_VAR" -> var_matched_var_generate(msr, var)
      [] var.name = "MATCHED_VAR_NAME" -> var_matched_var_name_generate(msr, var)
      [] var.name = "MULTIPART_BOUNDARY_QUOTED" -> var_multipart_boundary_quoted_generate(msr, var)
      [] var.name = "MULTIPART_BOUNDARY_WHITESPACE" -> var_multipart_boundary_whitespace_generate(msr, var)
      [] var.name = "MULTIPART_DATA_AFTER" -> var_multipart_data_after_generate(msr, var)
      [] var.name = "MULTIPART_DATA_BEFORE" -> var_multipart_data_before_generate(msr, var)
      [] var.name = "MULTIPART_HEADER_FOLDING" -> var_multipart_header_folding_generate(msr, var)
      [] var.name = "MULTIPART_CRLF_LINE" -> var_multipart_crlf_line_generate(msr, var)
      [] var.name = "MULTIPART_CRLF_LF_LINES" -> var_multipart_crlf_lf_lines_generate(msr, var)
      [] var.name = "MULTIPART_LF_LINE" -> var_multipart_lf_line_generate(msr, var)
      [] var.name = "MULTIPART_MISSING_SEMICOLON" -> var_multipart_missing_semicolon_generate(msr, var)
      [] var.name = "MULTIPART_INVALID_PART" -> var_multipart_invalid_part_generate(msr, var)
      [] var.name = "MULTIPART_INVALID_QUOTING" -> var_multipart_invalid_quoting_generate(msr, var)
      [] var.name = "MULTIPART_INVALID_HEADER_FOLDING" -> var_multipart_invalid_header_folding_generate(msr, var)
      [] var.name = "MULTIPART_FILE_LIMIT_EXCEEDED" -> var_multipart_file_limit_exceeded_generate(msr, var)
      [] var.name = "MULTIPART_STRICT_ERROR" -> var_multipart_strict_error_generate(msr, var)
      [] var.name = "MULTIPART_UNMATCHED_BOUNDARY" -> var_multipart_unmatched_boundary_generate(msr, var)
      [] var.name = "RESOURCE" -> var_resource_generate(msr, var)
      [] var.name = "REQBODY_PROCESSOR" -> var_reqbody_processor_generate(msr, var)
      [] var.name = "REQBODY_PROCESSOR_ERROR_MSG" -> var_reqbody_processor_error_msg_generate(msr, var)
      [] var.name = "REQBODY_ERROR_MSG" -> var_reqbody_processor_error_msg_generate(msr, var)
      [] var.name = "REQUEST_BASENAME" -> var_request_basename_generate(msr, var)
      [] var.name = "FULL_REQUEST" -> var_full_request_generate(msr, var)
      [] var.name = "FULL_REQUEST_LENGTH" -> var_full_request_length_generate(msr, var)
      [] var.name = "REQUEST_BODY" -> var_request_body_generate(msr, var)
      [] var.name = "REQUEST_BODY_LENGTH" -> var_request_body_length_generate(msr, var)
      [] var.name = "MATCHED_VARS_NAMES" -> var_matched_vars_names_generate(msr, var)
      [] var.name = "MATCHED_VARS" -> var_matched_vars_generate(msr, var)
      [] var.name = "REQUEST_COOKIES" -> var_request_cookies_generate(msr, var)
      [] var.name = "REQUEST_COOKIES_NAMES" -> var_request_cookies_names_generate(msr, var)
      [] var.name = "REQUEST_HEADERS" -> var_request_headers_generate(msr, var)
      [] var.name = "REQUEST_HEADERS_NAMES" -> var_request_headers_names_generate(msr, var)
      [] var.name = "REQUEST_URI" -> var_request_uri_generate(msr, var)
      [] var.name = "UNIQUE_ID" -> var_uniqueid_generate(msr, var)
      [] var.name = "STREAM_OUTPUT_BODY" -> var_stream_output_generate(msr, var)
      [] var.name = "STREAM_INPUT_BODY" -> var_stream_input_generate(msr, var)
      [] var.name = "RESPONSE_BODY" -> var_response_body_generate(msr, var)
      [] var.name = "RESPONSE_HEADERS" -> var_response_headers_generate(msr, var)
      [] var.name = "RESPONSE_HEADERS_NAMES" -> var_response_headers_names_generate(msr, var)
      [] var.name = "RULE" -> var_rule_generate(msr, var, rule)
      [] var.name = "SCRIPT_BASENAME" -> var_script_basename_generate(msr, var)
      [] var.name = "SESSION" -> var_session_generate(msr, var)
      [] var.name = "USER" -> var_user_generate(msr, var)
      [] var.name = "PERF_RULES" -> var_perf_rules_generate(msr, var)
      [] var.name = "PERF_ALL" -> var_perf_all_generate(msr, var)
      [] var.name = "PERF_COMBINED" -> var_perf_combined_generate(msr, var)
      [] var.name = "PERF_GC" -> var_perf_gc_generate(msr, var)
      [] var.name = "PERF_LOGGING" -> var_perf_logging_generate(msr, var)
      [] var.name = "PERF_PHASE1" -> var_perf_phases_generate(msr, var, 1)
      [] var.name = "PERF_PHASE2" -> var_perf_phases_generate(msr, var, 2)
      [] var.name = "PERF_PHASE3" -> var_perf_phases_generate(msr, var, 3)
      [] var.name = "PERF_PHASE4" -> var_perf_phases_generate(msr, var, 4)
      [] var.name = "PERF_PHASE5" -> var_perf_phases_generate(msr, var, 5)
      [] var.name = "PERF_SREAD" -> var_perf_sread_generate(msr, var)
      [] var.name = "PERF_SWRITE" -> var_perf_swrite_generate(msr, var)
      [] var.name = "DURATION" -> var_duration_generate(msr, var)
      [] var.name = "TIME" -> var_time_generate(msr, var)
      [] var.name = "TIME_DAY" -> var_time_day_generate(msr, var)
      [] var.name = "TIME_EPOCH" -> var_time_epoch_generate(msr, var)
      [] var.name = "TIME_HOUR" -> var_time_hour_generate(msr, var)
      [] var.name = "TIME_MIN" -> var_time_min_generate(msr, var)
      [] var.name = "TIME_MON" -> var_time_mon_generate(msr, var)
      [] var.name = "TIME_SEC" -> var_time_sec_generate(msr, var)
      [] var.name = "TIME_WDAY" -> var_time_wday_generate(msr, var)
      [] var.name = "TIME_YEAR" -> var_time_year_generate(msr, var)
      [] var.name = "TX" -> var_tx_generate(msr, var)
      [] var.name = "WEBSERVER_ERROR_LOG" -> var_webserver_error_log_generate(msr, var)
      [] var.name = "XML" -> var_xml_generate(msr, var)
      [] OTHER -> FieldVariable(msr, var)
=============================================================================
