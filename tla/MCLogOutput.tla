----------------------------- MODULE MCLogOutput -----------------------------
(***************************************************************************)
(* Configuration files and command lines for LogOutput.                    *)
(***************************************************************************)
EXTENDS LogOutput

MCSections == {"global", "server"}
MCNames == {"syslog", "no-syslog", "daemon", "logfile", "foreground", "ascii", "syslog-error"}

\* Two buckets, so that chains have several names.
MCHash ==
  [n \in MCNames |-> IF n \in {"syslog", "no-syslog", "daemon", "logfile"} THEN 1 ELSE 2]

H(n) == [is |-> "header", name |-> n]
Opt(n, v) == [is |-> "opt", name |-> n, val |-> v]
Junk == [is |-> "junk"]

Lines ==
  {H("global"), H("server"), Junk, Opt("syslog", "yes"), Opt("syslog-error", "yes"),
   Opt("no-syslog", "yes"), Opt("no-syslog", "no"), Opt("daemon", "maybe")}
Files == SeqOf(Lines, 3)

Arguments == {"syslog", "syslog-error", "no-syslog", "daemon", "foreground", "logfile", "ascii"}
CommandLines == SeqOf(Arguments, 3)

\* Every file alone and with the usual daemon, every command line with some files.
MCSetups ==
  [cfg: Files, args: {<< >>, <<"daemon">>, <<"daemon", "no-syslog">>}]
  \cup [cfg: {<< >>, <<Opt("no-syslog", "yes")>>, <<Opt("syslog", "yes")>>,
              <<Opt("daemon", "yes")>>, <<Opt("foreground", "yes")>>}, args: CommandLines]

MCWTexts == {<<1, NL>>, <<1>>, <<1, NL, 1, NL>>, <<1, 1, 1>>}
=============================================================================
