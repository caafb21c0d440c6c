------------------------------ MODULE LogOutput ------------------------------
(***************************************************************************)
(* Where what mcelog has to say ends up: main() of mcelog.c from the       *)
(* options to the log file, the output functions of msg.c with the line    *)
(* buffer in front of syslog, the flush after each record, and the         *)
(* reopening of the log file on SIGUSR1 when it has been rotated.          *)
(*                                                                         *)
(* A text is a sequence of the number of its message, for each character,  *)
(* and of newlines.  An output is everything written to it, in order.      *)
(***************************************************************************)
EXTENDS Options, FiniteSets

CONSTANTS
  Setups,        \* pairs of configuration file and command line
  LineSize,      \* size of the line buffer, 200 in the code
  WTexts,        \* what Wprintf is called with: 1 for a character, or NL
  MaxMessages,   \* bound: messages
  MaxRotations   \* bound: rotations of the log file

NL == 0

ASSUME LogOutputAssumption ==
  /\ Setups \subseteq [cfg: Seq(ConfigLine), args: Seq(STRING)]
  /\ LineSize \in Nat \ {0, 1}
  /\ WTexts \subseteq Seq({1, NL})
  /\ MaxMessages \in Nat /\ MaxRotations \in Nat

VARIABLES
  pc,          \* config, options, args, finish, daemonize, running or ended
  cfg, args,   \* the configuration file, and the command line
  pos,         \* how many lines, options or arguments are processed
  hlist,       \* the headers of the configuration file
  o,           \* the options
  files,       \* what is in each log file there was, rotated ones first
  name,        \* the file that has the name of the log file now, 0 for none
  output_fh,   \* the file output_fh is open on, 0 for NULL
  buf,         \* text in the stdio buffer of output_fh
  line,        \* the static line of vlinesyslog
  syslog,      \* lines it handed to syslog
  tty,         \* stdout and stderr lead somewhere
  usr1,        \* SIGUSR1 is pending
  sent,        \* history: number of messages
  filed,       \* history: text printed into output_fh
  given,       \* history: the texts given to vlinesyslog, and where they went
  unheard,     \* history: the kinds of the messages that reached nothing
  durable,     \* history: how much of filed belongs to logged records
  asked,       \* history: what the user said about syslog
  events       \* history: what happened, of Events

setup == <<cfg, args, pos, hlist, o, tty>>
history == <<sent, filed, given, unheard, durable, asked, events>>
vars == <<pc, setup, files, name, output_fh, buf, line, syslog, usr1, history>>
said  == <<buf, line, syslog, sent, filed, given, unheard, durable>>

Events == {"open failed", "reopen failed", "syslog used"}

-----------------------------------------------------------------------------
(* What a configuration file and a command line mean, to compare with. *)

\* The section a line is in, and the first value of a name in a section.
SectionOf(lines, k) ==
  LET headers == {i \in 1 .. k : lines[i].is = "header"}
  IN  IF headers = {} THEN "global" ELSE lines[Max(headers)].name
FirstIn(lines, header, n) ==
  LET hits == {k \in 1 .. Len(lines) :
                 /\ lines[k].is = "opt" /\ lines[k].name = n
                 /\ SectionOf(lines, k) = header}
  IN  IF hits = {} THEN NONE ELSE lines[Min(hits)].val
FirstInFile(lines, header, n) ==
  IF FirstIn(lines, header, n) # NONE THEN FirstIn(lines, header, n)
  ELSE FirstIn(lines, "global", n)

\* What the user wants of syslog.
Asked ==
  LET about == {i \in 1 .. Len(args) : args[i] \in {"syslog", "syslog-error", "no-syslog"}}
      configured(n) == FirstIn(cfg, "global", n) = "yes"
  IN  IF about # {}
        THEN IF args[Max(about)] = "no-syslog" THEN "no-syslog" ELSE "syslog"
      ELSE IF configured("no-syslog") THEN "no-syslog"
      ELSE IF configured("syslog") \/ configured("syslog-error") THEN "syslog"
      ELSE "nothing"
-----------------------------------------------------------------------------

Init ==
  /\ pc = "config"
  /\ \E s \in Setups : cfg = s.cfg /\ args = s.args
  /\ pos = 0
  /\ hlist = << >>
  /\ o = DefaultOptions
  /\ files = << << >> >>
  /\ name = 1
  /\ output_fh = 0
  /\ buf = << >> /\ line = << >> /\ syslog = << >>
  /\ tty = TRUE /\ usr1 = FALSE
  /\ sent = 0
  /\ filed = << >> /\ given = << >> /\ unheard = {} /\ durable = 0
  /\ asked = "nothing" /\ events = {}

-----------------------------------------------------------------------------
(* The start: main(), parse_config, ascii_command and modifier_finish *)

\* The rest of the state waits until main() is done with the options.
Starting == UNCHANGED <<cfg, args, tty, files, name, output_fh, usr1, said, events>>

\* parse_config_file: a line that is neither header nor option ends mcelog.
ReadLine ==
  /\ pc = "config" /\ ~ o.dead
  /\ pos < Len(cfg)
  /\ pos' = pos + 1
  /\ LET next == cfg[pos + 1]
     IN  IF next.is = "junk"
           THEN o' = [o EXCEPT !.dead = TRUE] /\ UNCHANGED hlist
           ELSE hlist' = ParseLine(hlist, next) /\ UNCHANGED o
  /\ Starting /\ UNCHANGED <<pc, asked>>

\* config_options: the options of the file, in the order of the table.
ReadOption ==
  /\ pc = "options" /\ ~ o.dead
  /\ pos < Len(OptionTable)
  /\ pos' = pos + 1
  /\ o' = ConfigOption(hlist, o, OptionTable[pos + 1])
  /\ Starting /\ UNCHANGED <<pc, hlist, asked>>

\* The arguments in their order; --ascii is a command, and the only one here.
Argument ==
  /\ pc = "args" /\ ~ o.dead
  /\ pos < Len(args)
  /\ pos' = pos + 1
  /\ LET opt == args[pos + 1]
     IN  o' = IF opt # "ascii" THEN modifier(o, opt)
              ELSE IF o.ascii THEN [o EXCEPT !.dead = TRUE]
              ELSE [o EXCEPT !.ascii = TRUE]
  /\ Starting /\ UNCHANGED <<pc, hlist, asked>>

\* The end of each of these loops.
ConfigDone ==
  /\ pc = "config" /\ ~ o.dead /\ pos = Len(cfg)
  /\ pc' = "options" /\ pos' = 0
  /\ Starting /\ UNCHANGED <<hlist, o, asked>>

OptionsDone ==
  /\ pc = "options" /\ ~ o.dead /\ pos = Len(OptionTable)
  /\ pc' = "args" /\ pos' = 0
  /\ Starting /\ UNCHANGED <<hlist, o, asked>>

ArgumentsDone ==
  /\ pc = "args" /\ ~ o.dead /\ pos = Len(args)
  /\ pc' = "finish"
  /\ asked' = Asked
  /\ Starting /\ UNCHANGED <<pos, hlist, o>>

Background(opts) == opts.daemon_mode /\ ~ opts.foreground /\ ~ opts.ascii

\* A background daemon has a log file by default.
WantsLogfile(opts) ==
  opts.logfile \/ (opts.daemon_mode /\ ~ opts.foreground /\ "LOG" \notin opts.syslog_opt)

\* open_logfile, for files with the contents fs: fopen for appending creates
\* the file if there is none.
open_logfile(fs) ==
  IF name = 0
    THEN /\ output_fh' = Len(fs) + 1
         /\ files' = Append(fs, << >>)
         /\ name' = Len(fs) + 1
    ELSE output_fh' = name /\ files' = fs /\ UNCHANGED name

\* The setup is behind: what remains of it is o.
Run(opts) ==
  /\ pc' = "daemonize" /\ o' = opts
  /\ cfg' = << >> /\ args' = << >> /\ pos' = 0 /\ hlist' = << >>
  /\ UNCHANGED tty

AsciiCommand ==
  /\ pc = "finish" /\ o.ascii
  /\ Run(no_syslog(o))
  /\ UNCHANGED <<files, name, output_fh, usr1, said, asked, events>>

\* Mutant: syslog is not used instead.
OpenFailed_Silent(opts) == opts

\* A daemon that cannot open its log file uses syslog, if it may.
OpenFailed(opts) ==
  IF opts.daemon_mode /\ ~ Forced(opts)
    THEN [opts EXCEPT !.syslog_opt = SYSLOG_ALL] ELSE opts

modifier_finish ==
  /\ pc = "finish" /\ ~ o.ascii
  /\ \/ /\ ~ WantsLogfile(o)
        /\ Run(o)
        /\ UNCHANGED <<files, name, output_fh, events>>
     \/ /\ WantsLogfile(o)
        /\ open_logfile(files)
        /\ Run(o)
        /\ UNCHANGED events
     \/ /\ WantsLogfile(o)
        /\ IF o.daemon_mode THEN Run(OpenFailed(o))
           ELSE pc' = "ended" /\ UNCHANGED setup
        /\ events' = events \cup {"open failed"}
        /\ UNCHANGED <<files, name, output_fh>>
  /\ UNCHANGED <<usr1, said, asked>>

need_stdout == output_fh = 0 /\ o.syslog_opt = {}

\* daemon(): a background daemon has its stdout and stderr on /dev/null.
Daemonize ==
  /\ pc = "daemonize"
  /\ pc' = "running"
  /\ tty' = (~ Background(o) \/ need_stdout)
  /\ UNCHANGED <<cfg, args, pos, hlist, o, files, name, output_fh, buf, line, syslog, usr1,
                 history>>

-----------------------------------------------------------------------------
(* msg.c *)

\* The bits of syslog_opt that send a message to syslog, and the one that keeps
\* it from stdout and stderr, for each output function.
ToSyslog(kind) ==
  CASE kind = "Lprintf" -> {"REMARK"}
    [] kind = "Eprintf" -> {"ERROR"}        \* and SYSERRprintf
    [] kind = "Wprintf" -> {"LOG"}
    [] kind = "Gprintf" -> {"REMARK", "LOG"}
NotPrinted(kind) ==
  CASE kind = "Lprintf" -> "REMARK"
    [] kind = "Eprintf" -> "ERROR"
    [] OTHER            -> "LOG"
Kinds == {"Wprintf", "Lprintf", "Eprintf", "Gprintf"}
LineBuffered == {"Wprintf", "Gprintf"}

Text(n, pattern) == [i \in 1 .. Len(pattern) |-> IF pattern[i] = NL THEN NL ELSE n]

\* Mutant: the rest behind the last newline is dropped.
Rest_Dropped(text, n) == << >>

\* memmove() of what is behind the last newline, at n.
Rest(text, n) == SubSeq(text, n + 1, Len(text))

\* The buffer ends in a 0.
Fits(text) == SubSeq(text, 1, Min({Len(text), LineSize - 1}))

\* What vlinesyslog has accepted: the lines handed on and the one that waits.
Out == syslog \o line

\* vsnprintf cuts what does not fit behind the text that waits for its newline,
\* and each complete line is handed on.
vlinesyslog(text) ==
  LET fits == Fits(line \o text)
      ends == Max({0} \cup {i \in 1 .. Len(fits) : fits[i] = NL})
  IN  /\ syslog' = syslog \o SubSeq(fits, 1, ends)
      /\ line' = Rest(fits, ends)
      /\ given' = Append(given, [text |-> text, at |-> Len(Out)])

\* A line that fills the buffer has no room for its newline: it stays for good.
Full == Len(line) = LineSize - 1

\* Where a message goes.  A message that reaches nothing is not noticed by the
\* code: one for a /dev/null, or for a line buffer that is full.
Message(kind, pattern) ==
  LET text == Text(sent + 1, pattern)
      log  == o.syslog_opt \cap ToSyslog(kind) # {}
      print == NotPrinted(kind) \notin o.syslog_opt \/ output_fh # 0
      heard == \/ log /\ ~ (kind \in LineBuffered /\ Full)
               \/ print /\ (output_fh # 0 \/ tty)
  IN  /\ pc = "running"
      /\ sent < MaxMessages
      /\ sent' = sent + 1
      /\ IF log /\ kind \in LineBuffered THEN vlinesyslog(text)
         ELSE UNCHANGED <<line, syslog, given>>
      /\ IF print /\ output_fh # 0
           THEN buf' = buf \o text /\ filed' = filed \o text
           ELSE UNCHANGED <<buf, filed>>
      /\ unheard' = unheard \cup (IF heard THEN {} ELSE {kind})
      /\ events' = events \cup (IF log THEN {"syslog used"} ELSE {})
      /\ UNCHANGED <<pc, setup, files, name, output_fh, usr1, durable, asked>>

\* The files once the stdio buffer is written.
Flushed == IF output_fh = 0 THEN files ELSE [files EXCEPT ![output_fh] = @ \o buf]

\* stdio writes by itself when its buffer is full.
StdioWrites ==
  /\ pc = "running" /\ buf # << >>
  /\ files' = Flushed /\ buf' = << >>
  /\ UNCHANGED <<pc, setup, name, output_fh, usr1, line, syslog, history>>

\* Mutant: nothing is flushed.
flushlog_Not == UNCHANGED <<files, buf>>

flushlog == files' = Flushed /\ buf' = << >>

\* process() at the end of a record that passed mce_filter.  A record that was
\* filtered out is passed over before the flush, with the text its accounting
\* may have printed still in the buffer.
EndRecord ==
  /\ pc = "running"
  /\ durable < Len(filed)
  /\ flushlog
  /\ durable' = Len(filed)
  /\ UNCHANGED <<pc, setup, name, output_fh, usr1, line, syslog,
                 sent, filed, given, unheard, asked, events>>

-----------------------------------------------------------------------------
(* Rotation, and the end *)

\* logrotate renames the file, maybe makes a new one, and sends SIGUSR1.
Rotate ==
  /\ pc = "running" /\ o.daemon_mode /\ ~ o.ascii /\ output_fh # 0
  /\ Len(files) <= MaxRotations
  /\ usr1' = TRUE
  /\ \/ files' = Append(files, << >>) /\ name' = Len(files) + 1
     \/ name # 0 /\ name' = 0 /\ UNCHANGED files
  /\ UNCHANGED <<pc, setup, output_fh, said, asked, events>>

\* Mutant: the text is written out, and the file stays open.
reopenlog_Flush ==
  files' = Flushed /\ buf' = << >> /\ UNCHANGED <<name, output_fh, events>>

\* fclose of the file, which writes its buffer, and open_logfile; the message
\* about a failure goes the way of any Eprintf.
reopenlog ==
  /\ buf' = << >>
  /\ \/ open_logfile(Flushed) /\ UNCHANGED events
     \/ /\ output_fh' = 0 /\ files' = Flushed /\ UNCHANGED name
        /\ events' = events \cup {"reopen failed"}

\* The handler runs within ppoll only.  Without an open log file it does nothing.
handle_sigusr1 ==
  /\ pc = "running" /\ usr1
  /\ usr1' = FALSE
  /\ IF output_fh # 0 THEN reopenlog ELSE UNCHANGED <<files, name, output_fh, buf, events>>
  /\ UNCHANGED <<pc, setup, line, syslog, sent, filed, given, unheard, durable, asked>>

\* exit(), which writes the stdio buffers, or a signal, with or without its
\* handler signal_exit: _exit() does not.
Exit ==
  /\ pc = "running"
  /\ pc' = "ended"
  /\ \/ files' = Flushed /\ buf' = << >>
     \/ UNCHANGED <<files, buf>>
  /\ UNCHANGED <<setup, name, output_fh, usr1, line, syslog, history>>

Next ==
  \/ ReadLine \/ ConfigDone \/ ReadOption \/ OptionsDone
  \/ Argument \/ ArgumentsDone \/ AsciiCommand \/ modifier_finish \/ Daemonize
  \/ \E text \in WTexts : Message("Wprintf", text)
  \/ \E kind \in Kinds \ {"Wprintf"} : Message(kind, <<1, NL>>)
  \/ StdioWrites \/ EndRecord \/ Rotate \/ handle_sigusr1 \/ Exit

\* ppoll is entered again and again, and delivers the signal.
Spec == Init /\ [][Next]_vars /\ WF_vars(handle_sigusr1)

-----------------------------------------------------------------------------
\* What waits for its newline always leaves room for the 0 that ends it.
TypeOK ==
  /\ pc \in {"config", "options", "args", "finish", "daemonize", "running", "ended"}
  /\ o.syslog_opt \subseteq SYSLOG_ALL \cup {"FORCE"}
  /\ o.syslog_level \in {"warning", "err"}
  /\ \A flag \in {"daemon_mode", "foreground", "logfile", "ascii", "dead"} : o[flag] \in BOOLEAN
  /\ files \in Seq(Seq(Nat)) /\ buf \in Seq(Nat)
  /\ name \in 0 .. Len(files) /\ output_fh \in 0 .. Len(files)
  /\ line \in Seq(Nat \ {NL}) /\ Len(line) < LineSize
  /\ syslog \in Seq(Nat)
  /\ tty \in BOOLEAN /\ usr1 \in BOOLEAN
  /\ unheard \subseteq Kinds /\ events \subseteq Events

(* config_string gives the first value of the name in any section of that
   name, and else the first one of the global sections: hash buckets and
   sections that are repeated do not change the order of the file.         *)
LookupIsFirst ==
  pc = "options" =>
    \A header \in Sections, n \in Names :
      config_string(hlist, header, n) = FirstInFile(cfg, header, n)

(* The user has the last word on syslog: the last of --syslog, --syslog-error
   and --no-syslog on the command line counts, else what the configuration
   file says, whatever other options stand around them.  With --no-syslog
   nothing ever goes to syslog, not even when the log file cannot be opened.*)
SyslogAsAsked ==
  pc = "running" =>
    /\ asked = "syslog" => "LOG" \in o.syslog_opt
    /\ asked = "no-syslog" => "syslog used" \notin events

(* The options are what file and command line say, through parse_config_file,
   config_string and modifier.                                             *)
OptionsAsGiven == LookupIsFirst /\ SyslogAsAsked

(* No message disappears unnoticed: whatever combination of options, and
   whether or not the log file can be opened or reopened, each one goes to
   syslog, to the log file or to a terminal.  The exceptions are a daemon told
   to use no syslog that cannot open or reopen its log file; the decoded
   records of a daemon told nothing about syslog that cannot reopen it: after
   reopenlog nothing turns to syslog, as modifier_finish does at the start; and
   a line buffer that is full and swallows whatever goes through it.       *)
EveryMessageHeard ==
  \A kind \in unheard :
    \/ asked = "no-syslog" /\ {"open failed", "reopen failed"} \cap events # {}
    \/ asked = "nothing" /\ "reopen failed" \in events /\ kind = "Wprintf"
    \/ kind \in LineBuffered /\ Full

(* The log files, taken together in the order of their rotation, hold what
   was printed without gaps, and everything up to the last record that was
   logged, even if the daemon is terminated by a signal.  What comes after it
   may be lost then: the accounting of a record that is filtered out is.   *)
LogComplete ==
  LET written == FlattenSeq(files)
  IN  /\ IsPrefix(written, filed)
      /\ Len(written) >= durable
      /\ pc = "running" => written \o buf = filed

\* The part of what vlinesyslog accepted that is the i-th text's, and how much
\* of a line was before it, waiting for its newline.
End(i) == IF i = Len(given) THEN Len(Out) ELSE given[i + 1].at
Taken(i) == SubSeq(Out, given[i].at + 1, End(i))
Waiting(i) == given[i].at - Max({0} \cup {k \in 1 .. given[i].at : Out[k] = NL})

(* What goes through vlinesyslog is the texts one after the other, nothing
   between them and none lost.  A text is cut only at its end, and only where
   it fills the buffer together with what waited there; the texts before and
   after it keep their places.  syslog gets whole lines only.              *)
LinesKept ==
  /\ IF given = << >> THEN Out = << >> ELSE given[1].at = 0
  /\ \A i \in 1 .. Len(given) :
       /\ IsPrefix(Taken(i), given[i].text)
       /\ Taken(i) # given[i].text => Waiting(i) + Len(Taken(i)) = LineSize - 1
  /\ syslog # << >> => syslog[Len(syslog)] = NL

(* vlinesyslog loses nothing but what its buffer has no room for, and does not
   write past the buffer (TypeOK).                                         *)
SyslogComplete == TypeOK /\ LinesKept

(* A rotation is followed: after SIGUSR1 the daemon writes into the file that
   has the name of the log file, unless it could not be opened, or the daemon
   ended.                                                                  *)
RotationFollowed ==
  usr1 ~> (output_fh = name \/ "reopen failed" \in events \/ pc = "ended")
=============================================================================
