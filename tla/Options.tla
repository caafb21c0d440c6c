------------------------------- MODULE Options -------------------------------
(***************************************************************************)
(* The configuration file and the options that decide where output goes:   *)
(* the parser and the lookup of config.c, and modifier() of mcelog.c.      *)
(*                                                                         *)
(* A line of the file is a header, an option with its value, or junk;      *)
(* comments and empty lines are dropped.  The values are those config_bool *)
(* tells apart.  hash stands for the djb hash modulo SHASH.                *)
(***************************************************************************)
EXTENDS Naturals, Sequences, SequencesExt

CONSTANTS
  Sections,   \* section names that occur
  Names,      \* option names that occur, and those of the table of mcelog.c
  Buckets,    \* number of hash buckets, SHASH
  hash        \* the bucket of a name

NONE == "none"     \* a NULL string

\* The order of the table options[] of mcelog.c, not that of the file.
OptionTable ==
  <<"logfile", "syslog", "syslog-error", "no-syslog", "daemon", "ascii", "foreground">>

ASSUME OptionsAssumption ==
  /\ Buckets \in Nat \ {0}
  /\ "global" \in Sections
  /\ Range(OptionTable) \subseteq Names
  /\ hash \in [Names -> 1 .. Buckets]

ConfigLine ==
  [is: {"header"}, name: Sections] \cup [is: {"opt"}, name: Names, val: STRING \ {NONE}]
    \cup [is: {"junk"}]

-----------------------------------------------------------------------------
(* parse_config_file.  hlist is the list of headers in the order of the file,
   each with the chains of its buckets.                                     *)

new_header(hlist, name) ==
  Append(hlist, [name |-> name, opts |-> [h \in 1 .. Buckets |-> << >>]])

\* Mutant: an option is put at the front of its chain.
add_opt_Front(hlist, opt) ==
  LET hs == IF hlist = << >> THEN new_header(hlist, "global") ELSE hlist
  IN  [hs EXCEPT ![Len(hs)].opts[hash[opt.name]] = <<opt>> \o @]

\* An option before the first header belongs to "global".
add_opt(hlist, opt) ==
  LET hs == IF hlist = << >> THEN new_header(hlist, "global") ELSE hlist
  IN  [hs EXCEPT ![Len(hs)].opts[hash[opt.name]] = Append(@, opt)]

\* What a header or an option adds to the list.
ParseLine(hlist, line) ==
  IF line.is = "header" THEN new_header(hlist, line.name) ELSE add_opt(hlist, line)

-----------------------------------------------------------------------------
(* The lookup *)

LookupIn(hlist, header, name) ==
  LET chain(i) == hlist[i].opts[hash[name]]
      hits == {i \in 1 .. Len(hlist) :
                 /\ hlist[i].name = header
                 /\ \E j \in 1 .. Len(chain(i)) : chain(i)[j].name = name}
  IN  IF hits = {} THEN NONE
      ELSE LET c == chain(Min(hits))
           IN  c[Min({j \in 1 .. Len(c) : c[j].name = name})].val

config_string(hlist, header, name) ==
  LET val == LookupIn(hlist, header, name)
  IN  IF val = NONE /\ header # "global" THEN LookupIn(hlist, "global", name) ELSE val

-----------------------------------------------------------------------------
(* The options.  o is the state they set. *)

SYSLOG_ALL == {"LOG", "REMARK", "ERROR"}

DefaultOptions ==
  [syslog_opt |-> {"REMARK"}, syslog_level |-> "warning", daemon_mode |-> FALSE, foreground |-> FALSE,
   logfile |-> FALSE, ascii |-> FALSE, dead |-> FALSE]

Forced(o) == "FORCE" \in o.syslog_opt

modifier(o, opt) ==
  CASE opt = "logfile"    -> [o EXCEPT !.logfile = TRUE]
    [] opt = "syslog"     -> [o EXCEPT !.syslog_opt = SYSLOG_ALL \cup {"FORCE"}]
    [] opt = "syslog-error" ->
                             [o EXCEPT !.syslog_opt = SYSLOG_ALL \cup {"FORCE"},
                                       !.syslog_level = "err"]
    [] opt = "no-syslog"  -> [o EXCEPT !.syslog_opt = {"FORCE"}]
    [] opt = "daemon"     -> [o EXCEPT !.daemon_mode = TRUE,
                                       !.syslog_opt = IF Forced(o) THEN @
                                                      ELSE {"REMARK", "ERROR"}]
    [] opt = "foreground" -> [o EXCEPT !.foreground = TRUE,
                                       !.syslog_opt = IF Forced(o) THEN @ ELSE {"FORCE"}]
    [] OTHER              -> o

\* config_options for one entry of the table; an option with an argument needs
\* a value, another one "yes"; a value that is neither yes nor no ends mcelog.
ConfigOption(hlist, o, opt) ==
  LET val == config_string(hlist, "global", opt)
  IN  IF o.dead \/ val = NONE THEN o
      ELSE IF opt = "logfile" \/ val = "yes" THEN modifier(o, opt)
      ELSE IF val = "no" THEN o
      ELSE [o EXCEPT !.dead = TRUE]

\* Without FORCE, --ascii logs to the terminal only.
no_syslog(o) == [o EXCEPT !.syslog_opt = IF Forced(o) THEN @ ELSE {}]
=============================================================================
