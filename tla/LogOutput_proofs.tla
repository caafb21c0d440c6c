-------------------------- MODULE LogOutput_proofs --------------------------
(***************************************************************************)
(* Proofs about the options and the outputs of mcelog, for every           *)
(* configuration file, command line, size of the line buffer and sequence  *)
(* of messages, records, rotations and ends.                               *)
(***************************************************************************)
EXTENDS LogOutput, SequenceTheorems, WellFoundedInduction, TLAPS

-----------------------------------------------------------------------------
(* The inductive invariant *)

(* Types.                                                                  *)
OptionType ==
  [syslog_opt: SUBSET (SYSLOG_ALL \cup {"FORCE"}), syslog_level: {"warning", "err"},
   daemon_mode: BOOLEAN, foreground: BOOLEAN, logfile: BOOLEAN, ascii: BOOLEAN, dead: BOOLEAN]

OptLine == [is: {"opt"}, name: Names, val: STRING \ {NONE}]
Header == [name: Sections, opts: [1 .. Buckets -> Seq(OptLine)]]

SetupType ==
  /\ pc \in {"config", "options", "args", "finish", "daemonize", "running", "ended"}
  /\ cfg \in Seq(ConfigLine) /\ args \in Seq(STRING)
  /\ pos \in Nat
  /\ hlist \in Seq(Header)
  /\ o \in OptionType
  /\ tty \in BOOLEAN /\ usr1 \in BOOLEAN
  /\ asked \in {"nothing", "syslog", "no-syslog"}
  /\ events \subseteq Events

Given == [text: Seq(Nat), at: Nat]

OutputType ==
  /\ files \in Seq(Seq(Nat)) /\ buf \in Seq(Nat) /\ filed \in Seq(Nat)
  /\ name \in {0, Len(files)} /\ output_fh \in 0 .. Len(files)
  /\ line \in Seq(Nat \ {NL}) /\ Len(line) < LineSize
  /\ syslog \in Seq(Nat) /\ given \in Seq(Given) /\ unheard \subseteq Kinds
  /\ sent \in Nat /\ durable \in Nat

(* The lookup agrees with the part of the file that was read: FirstIn of the
   first k lines.                                                          *)
Hits(lines, k, header, n) ==
  {i \in 1 .. k : /\ lines[i].is = "opt" /\ lines[i].name = n
                  /\ SectionOf(lines, i) = header}
FirstUpTo(lines, k, header, n) ==
  IF Hits(lines, k, header, n) = {} THEN NONE ELSE lines[Min(Hits(lines, k, header, n))].val

Parsed(hl, lines, k) ==
  /\ (hl = << >>) <=> (k = 0)
  /\ hl # << >> => hl[Len(hl)].name = SectionOf(lines, k)
  /\ \A header \in Sections, n \in Names :
       LookupIn(hl, header, n) = FirstUpTo(lines, k, header, n)

ParseInv ==
  /\ pc = "config" => pos <= Len(cfg) /\ (o.dead \/ Parsed(hlist, cfg, pos))
  /\ pc = "options" => pos <= Len(OptionTable) /\ Parsed(hlist, cfg, Len(cfg))
  /\ pc = "args" => pos <= Len(args)

(* What was said about syslog so far, by the first k options of the table, or
   by them all and the first k arguments.                                  *)
Configured(n) == FirstIn(cfg, "global", n) = "yes"
SaidByFile(k) ==
  IF k >= 4 /\ Configured("no-syslog") THEN "no-syslog"
  ELSE IF (k >= 2 /\ Configured("syslog")) \/ (k >= 3 /\ Configured("syslog-error"))
    THEN "syslog"
  ELSE "nothing"
AboutSyslog == {"syslog", "syslog-error", "no-syslog"}
About(k) == {i \in 1 .. k : args[i] \in AboutSyslog}
SaidByUser(k) ==
  IF About(k) # {}
    THEN IF args[Max(About(k))] = "no-syslog" THEN "no-syslog" ELSE "syslog"
  ELSE SaidByFile(7)

(* The options follow what was said: FORCE is set if something was, or by
   --foreground, and nothing else adds LOG before the log file is opened.  *)
Follows(opts, what) ==
  /\ what = "syslog" => opts.syslog_opt = SYSLOG_ALL \cup {"FORCE"}
  /\ what = "no-syslog" => opts.syslog_opt = {"FORCE"}
  /\ what = "nothing" =>
       /\ Forced(opts) => opts.foreground
       /\ "LOG" \notin opts.syslog_opt
       /\ opts.daemon_mode /\ ~ opts.foreground => {"REMARK", "ERROR"} \subseteq opts.syslog_opt

Started == pc \in {"daemonize", "running", "ended"}

OptionInv ==
  /\ pc = "config" => Follows(o, "nothing")
  /\ pc = "options" => Follows(o, SaidByFile(pos))
  /\ pc = "args" => Follows(o, SaidByUser(pos))
  /\ pc = "finish" => Follows(o, asked)
  /\ pc \in {"daemonize", "running"} /\ asked # "nothing" => Follows(o, asked)
  /\ ~ Started => events = {} /\ output_fh = 0 /\ unheard = {}

(* Without a log file a background daemon uses syslog as it was told, or it has
   failed to open the file, and uses syslog if nothing was said about that. *)
HeardInv ==
  /\ pc \in {"daemonize", "running"} =>
       /\ Background(o) /\ output_fh = 0 /\ asked # "syslog" =>
            "open failed" \in events \/ "reopen failed" \in events
       /\ Background(o) /\ "open failed" \in events /\ asked = "nothing" =>
            o.syslog_opt = SYSLOG_ALL
       /\ Background(o) /\ asked = "nothing" => {"REMARK", "ERROR"} \subseteq o.syslog_opt
       /\ asked = "no-syslog" => "syslog used" \notin events
  /\ pc = "running" => (~ tty => Background(o))
  /\ EveryMessageHeard

(* Text is written to the newest of the files that have any, and what is not
   written yet waits in the buffer.                                        *)
FileInv ==
  /\ output_fh = 0 => buf = << >>
  /\ output_fh # 0 => \A f \in 1 .. Len(files) : f > output_fh => files[f] = << >>
  /\ Len(files) > 0
  /\ FlattenSeq(files) \o buf = filed
  /\ durable <= Len(FlattenSeq(files))

(* Where the texts went in vlinesyslog, and that the places are in order.  *)
Marks ==
  \A i \in 1 .. Len(given) : given[i].at <= End(i) /\ End(i) <= Len(Out)
LinesInv == LinesKept /\ Marks

IInv ==
  /\ SetupType /\ OutputType /\ ParseInv /\ OptionInv /\ HeardInv /\ LinesInv /\ FileInv

-----------------------------------------------------------------------------
(* Extrema: every set of naturals that is not empty has a least element, and
   a greatest one if it is bounded.                                        *)

LessThan == OpToRel(<, Nat)

LEMMA LeastExists ==
  ASSUME NEW T \in SUBSET Nat, T # {}
  PROVE  \E x \in T : \A y \in T : x <= y
<1>1. IsWellFoundedOn(LessThan, Nat)
  BY NatLessThanWellFounded DEF LessThan
<1>2. \A a, b \in Nat : a < b => <<a, b>> \in LessThan
  BY DEF LessThan, OpToRel
<1>3. T \subseteq Nat
  OBVIOUS
<1>4. PICK x \in T : \A y \in T : ~ (<<y, x>> \in LessThan)
  BY <1>1, <1>3, WFMin
<1>5. ASSUME NEW y \in T PROVE x <= y
  <2>1. x \in Nat /\ y \in Nat
    OBVIOUS
  <2>2. ~ (y < x)
    BY <1>2, <1>4, <2>1
  <2> QED
    BY <2>1, <2>2
<1> QED
  BY <1>4, <1>5

LEMMA MinIsLeast ==
  ASSUME NEW T \in SUBSET Nat, T # {}
  PROVE  Min(T) \in T /\ \A y \in T : Min(T) <= y
BY LeastExists, Zenon DEF Min

LEMMA GreatestExists ==
  ASSUME NEW n \in Nat, NEW T \in SUBSET (0 .. n), T # {}
  PROVE  \E x \in T : \A y \in T : x >= y
<1> DEFINE Below == {j \in 0 .. n : n - j \in T}
<1>1. PICK t : t \in T
  OBVIOUS
<1>2. n - t \in Below
  BY <1>1
<1>3. Below \in SUBSET Nat /\ Below # {}
  BY <1>2
<1>4. PICK b \in Below : \A y \in Below : b <= y
  BY <1>3, LeastExists
<1>5. ASSUME NEW y \in T PROVE y <= n - b
  <2>1. n - y \in Below
    OBVIOUS
  <2> QED
    BY <2>1, <1>4
<1>6. n - b \in T
  OBVIOUS
<1>7. \A y \in T : n - b >= y
  BY <1>5
<1> QED
  BY <1>6, <1>7

LEMMA MaxIsGreatest ==
  ASSUME NEW n \in Nat, NEW T \in SUBSET (0 .. n), T # {}
  PROVE  Max(T) \in T /\ \A y \in T : Max(T) >= y
BY GreatestExists, Zenon DEF Max

(* An extremum is what has its properties.                                 *)
LEMMA MinIs ==
  ASSUME NEW T \in SUBSET Nat, NEW m \in T, \A y \in T : m <= y
  PROVE  Min(T) = m
<1>1. Min(T) \in T /\ \A y \in T : Min(T) <= y
  BY MinIsLeast
<1>2. Min(T) <= m /\ m <= Min(T) /\ m \in Nat /\ Min(T) \in Nat
  BY <1>1
<1> QED
  BY <1>2

LEMMA MaxIs ==
  ASSUME NEW n \in Nat, NEW T \in SUBSET (0 .. n), NEW m \in T, \A y \in T : m >= y
  PROVE  Max(T) = m
<1>1. Max(T) \in T /\ \A y \in T : Max(T) >= y
  BY MaxIsGreatest
<1>2. \A t \in T : t \in Nat
  OBVIOUS
<1>3. m \in Nat /\ Max(T) \in Nat
  BY <1>1, <1>2
<1>4. Max(T) >= m /\ m >= Max(T)
  BY <1>1, <1>3
<1> QED
  BY <1>3, <1>4

-----------------------------------------------------------------------------
(* The line buffer in front of syslog *)

LEMMA Associates ==
  \A s, t, u \in Seq(Nat) : (s \o t) \o u = s \o (t \o u)
BY ConcatAssociative, SMTT(40)

LEMMA TextType ==
  ASSUME NEW n \in Nat, NEW pattern \in Seq({1, NL})
  PROVE  Text(n, pattern) \in Seq(Nat)
<1>1. Len(pattern) \in Nat
  BY LenProperties
<1>2. \A i \in 1 .. Len(pattern) : (IF pattern[i] = NL THEN NL ELSE n) \in Nat
  BY DEF NL
<1> QED
  BY <1>1, <1>2, IsASeq DEF Text

(* A prefix of a concatenation that holds all of its first part.           *)
LEMMA PrefixOfConcat ==
  ASSUME NEW s \in Seq(Nat), NEW t \in Seq(Nat), NEW k \in 0 .. Len(t)
  PROVE  SubSeq(s \o t, 1, Len(s) + k) = s \o SubSeq(t, 1, k)
<1> DEFINE n == Len(s)
           u == SubSeq(t, 1, k)
           c == s \o t
           p == SubSeq(c, 1, n + k)
<1>1. n \in Nat /\ Len(t) \in Nat /\ k \in Nat /\ k <= Len(t)
  BY LenProperties
<1>2. /\ c \in Seq(Nat) /\ Len(c) = n + Len(t)
      /\ \A i \in 1 .. n + Len(t) : c[i] = IF i <= n THEN s[i] ELSE t[i - n]
  BY ConcatProperties
<1>3. u \in Seq(Nat) /\ Len(u) = k /\ \A i \in 1 .. k : u[i] = t[i]
  <2>1. \A i \in 1 .. k : t[i] \in Nat
    BY <1>1, ElementOfSeq
  <2>2. 1 \in Int /\ k \in Int /\ (k - 1) + 1 = k /\ (1 <= k \/ k = 0)
    BY <1>1
  <2>3. /\ u \in Seq(Nat) /\ Len(u) = IF 1 <= k THEN (k - 1) + 1 ELSE 0
        /\ \A i \in 1 .. (k - 1) + 1 : u[i] = t[(1 + i) - 1]
    BY <2>1, <2>2, SubSeqProperties
  <2>4. \A i \in 1 .. k : (1 + i) - 1 = i
    BY <1>1
  <2> QED
    BY <1>1, <2>2, <2>3, <2>4
<1> HIDE DEF u, c, n
<1>4. p \in Seq(Nat) /\ Len(p) = n + k /\ \A i \in 1 .. n + k : p[i] = c[i]
  <2>1. \A i \in 1 .. n + k : c[i] \in Nat
    BY <1>1, <1>2, ElementOfSeq
  <2>2. 1 \in Int /\ n + k \in Int /\ ((n + k) - 1) + 1 = n + k /\ (1 <= n + k \/ n + k = 0)
    BY <1>1
  <2>3. /\ p \in Seq(Nat) /\ Len(p) = IF 1 <= n + k THEN ((n + k) - 1) + 1 ELSE 0
        /\ \A i \in 1 .. ((n + k) - 1) + 1 : p[i] = c[(1 + i) - 1]
    BY <2>1, <2>2, SubSeqProperties
  <2>4. \A i \in 1 .. n + k : (1 + i) - 1 = i
    BY <1>1
  <2> QED
    BY <1>1, <2>2, <2>3, <2>4
<1>5. /\ s \o u \in Seq(Nat) /\ Len(s \o u) = n + k
      /\ \A i \in 1 .. n + k : (s \o u)[i] = IF i <= n THEN s[i] ELSE u[i - n]
  BY <1>3, ConcatProperties DEF n
<1> HIDE DEF p
<1>6. ASSUME NEW i \in 1 .. n + k PROVE p[i] = (s \o u)[i]
  <2>1. CASE i <= n
    <3>1. i \in 1 .. n + Len(t)
      BY <1>1, <1>6
    <3>2. c[i] = s[i]
      BY <1>2, <2>1, <3>1
    <3>3. (s \o u)[i] = s[i] /\ p[i] = c[i]
      BY <1>4, <1>5, <1>6, <2>1
    <3> QED
      BY <3>2, <3>3
  <2>2. CASE ~ (i <= n)
    <3>1. i - n \in 1 .. k /\ i \in 1 .. n + Len(t)
      BY <1>1, <1>6, <2>2
    <3> QED
      BY <1>2, <1>3, <1>4, <1>5, <1>6, <2>2, <3>1
  <2> QED
    BY <2>1, <2>2
<1>7. p = s \o u
  BY <1>4, <1>5, <1>6, SeqEqual
<1> QED
  BY <1>7 DEF p, u, c, n

(* What vsnprintf leaves behind the line ln of a text: a prefix, and all of it
   unless the buffer is full.                                              *)
LEMMA FitsIs ==
  ASSUME NEW ln \in Seq(Nat), Len(ln) < LineSize, NEW text \in Seq(Nat)
  PROVE  \E k \in 0 .. Len(text) :
           /\ Fits(ln \o text) = ln \o SubSeq(text, 1, k)
           /\ k # Len(text) => Len(ln) + k = LineSize - 1
           /\ Len(ln) + k < LineSize
<1> DEFINE n == Len(ln \o text)
           m == Min({n, LineSize - 1})
           k == m - Len(ln)
<1>1. /\ Len(ln) \in Nat /\ Len(text) \in Nat /\ n = Len(ln) + Len(text)
      /\ LineSize \in Nat /\ LineSize >= 2
  BY LenProperties, ConcatProperties, LogOutputAssumption
<1> HIDE DEF n
<1>2. m = IF n < LineSize THEN n ELSE LineSize - 1
  <2>1. {n, LineSize - 1} \in SUBSET Nat
    BY <1>1
  <2>2. CASE n < LineSize
    <3>1. \A y \in {n, LineSize - 1} : n <= y
      BY <1>1, <2>2
    <3>2. m = n
      BY <2>1, <3>1, MinIs
    <3> QED
      BY <2>2, <3>2
  <2>3. CASE ~ (n < LineSize)
    <3>1. \A y \in {n, LineSize - 1} : LineSize - 1 <= y
      BY <1>1, <2>3
    <3>2. m = LineSize - 1
      BY <2>1, <3>1, MinIs
    <3> QED
      BY <2>3, <3>2
  <2> QED
    BY <2>2, <2>3
<1>3. Fits(ln \o text) = SubSeq(ln \o text, 1, m)
  BY DEF Fits, n
<1> HIDE DEF m
<1>4. /\ k \in 0 .. Len(text) /\ m = Len(ln) + k /\ Len(ln) + k < LineSize
      /\ k # Len(text) => Len(ln) + k = LineSize - 1
  BY <1>1, <1>2
<1> HIDE DEF k
<1>5. SubSeq(ln \o text, 1, Len(ln) + k) = ln \o SubSeq(text, 1, k)
  BY <1>4, PrefixOfConcat
<1> QED
  BY <1>3, <1>4, <1>5

(* The position of the last newline.                                       *)
LastNewline(fits) == Max({0} \cup {i \in 1 .. Len(fits) : fits[i] = NL})

LEMMA LastNewlineIsLast ==
  ASSUME NEW fits \in Seq(Nat)
  PROVE  /\ LastNewline(fits) \in 0 .. Len(fits)
         /\ LastNewline(fits) # 0 => fits[LastNewline(fits)] = NL
         /\ \A i \in 1 .. Len(fits) : i > LastNewline(fits) => fits[i] # NL
<1> DEFINE T == {0} \cup {i \in 1 .. Len(fits) : fits[i] = NL}
<1>1. Len(fits) \in Nat
  BY LenProperties
<1>2. T \in SUBSET (0 .. Len(fits)) /\ T # {}
  BY <1>1
<1>3. Max(T) \in T /\ \A y \in T : Max(T) >= y
  BY <1>1, <1>2, MaxIsGreatest
<1>4. LastNewline(fits) = Max(T)
  BY DEF LastNewline
<1>5. /\ \A i \in 1 .. Len(fits) : fits[i] = NL => i \in T
      /\ \A i \in T : i # 0 => fits[i] = NL
  OBVIOUS
<1> HIDE DEF T
<1>6. Max(T) \in 0 .. Len(fits)
  BY <1>2, <1>3
<1> QED
  BY <1>1, <1>3, <1>4, <1>5, <1>6

(* The texts given to vlinesyslog and where they went: LinesKept in terms of
   the output out and the texts g.                                         *)
EndOf(out, g, i) == IF i = Len(g) THEN Len(out) ELSE g[i + 1].at
PartOf(out, g, i) == SubSeq(out, g[i].at + 1, EndOf(out, g, i))
Before(out, a) == a - Max({0} \cup {k \in 1 .. a : out[k] = NL})
TextKept(out, g, i) ==
  /\ IsPrefix(PartOf(out, g, i), g[i].text)
  /\ PartOf(out, g, i) # g[i].text =>
       Before(out, g[i].at) + Len(PartOf(out, g, i)) = LineSize - 1

LEMMA KeptIs ==
  /\ \A i : (IsPrefix(Taken(i), given[i].text)
              /\ (Taken(i) # given[i].text => Waiting(i) + Len(Taken(i)) = LineSize - 1))
             <=> TextKept(Out, given, i)
  /\ LinesKept <=>
       /\ IF given = << >> THEN Out = << >> ELSE given[1].at = 0
       /\ \A i \in 1 .. Len(given) : TextKept(Out, given, i)
       /\ syslog # << >> => syslog[Len(syslog)] = NL
BY Zenon DEF LinesKept, TextKept, Taken, Waiting, End, EndOf, PartOf, Before

(* The output grows by x, a part of the text that is given last.           *)
LEMMA TextsKept ==
  ASSUME NEW out \in Seq(Nat), NEW x \in Seq(Nat), NEW g \in Seq(Given),
         \A i \in 1 .. Len(g) :
           g[i].at <= EndOf(out, g, i) /\ EndOf(out, g, i) <= Len(out) /\ TextKept(out, g, i),
         NEW text \in Seq(Nat), NEW k \in 0 .. Len(text), x = SubSeq(text, 1, k),
         k # Len(text) => Before(out, Len(out)) + k = LineSize - 1,
         NEW out2, out2 = out \o x,
         NEW g2, g2 = Append(g, [text |-> text, at |-> Len(out)])
  PROVE  /\ g2 \in Seq(Given)
         /\ \A i \in 1 .. Len(g2) :
              g2[i].at <= EndOf(out2, g2, i) /\ EndOf(out2, g2, i) <= Len(out2)
              /\ TextKept(out2, g2, i)
<1> DEFINE e == [text |-> text, at |-> Len(out)]
           n == Len(out)
<1>1. n \in Nat /\ Len(x) \in Nat /\ Len(g) \in Nat /\ Len(text) \in Nat /\ k \in Nat
      /\ k <= Len(text)
  BY LenProperties
<1>2. /\ out2 \in Seq(Nat) /\ Len(out2) = n + Len(x)
      /\ \A i \in 1 .. n + Len(x) : out2[i] = IF i <= n THEN out[i] ELSE x[i - n]
  BY ConcatProperties
<1>3. e \in Given /\ e.text = text /\ e.at = n
  BY <1>1 DEF Given
<1>4. g2 = Append(g, e)
  OBVIOUS
<1> HIDE DEF e
<1>5. /\ g2 \in Seq(Given) /\ Len(g2) = Len(g) + 1
      /\ \A i \in 1 .. Len(g) : g2[i] = g[i]
      /\ g2[Len(g) + 1] = e
  BY <1>3, <1>4, AppendProperties
<1>6. ASSUME NEW a \in Nat, a <= n PROVE Before(out2, a) = Before(out, a)
  <2>1. \A i \in 1 .. a : out2[i] = out[i]
    BY <1>1, <1>2, <1>6
  <2>2. {i \in 1 .. a : out2[i] = NL} = {i \in 1 .. a : out[i] = NL}
    BY <2>1
  <2> QED
    BY <2>2 DEF Before
<1>7. ASSUME NEW i \in 1 .. Len(g)
      PROVE  /\ g2[i].at <= EndOf(out2, g2, i) /\ EndOf(out2, g2, i) <= Len(out2)
             /\ TextKept(out2, g2, i)
  <2> DEFINE a == g[i].at
             z == EndOf(out, g, i)
  <2>1. /\ g[i] \in Given /\ a \in Nat /\ a <= z /\ z <= n /\ TextKept(out, g, i)
    <3>1. g[i] \in Given
      BY <1>7, ElementOfSeq
    <3> QED
      BY <1>7, <3>1 DEF Given
  <2>2. z \in Nat
    <3>1. CASE i = Len(g)
      BY <1>1, <3>1 DEF EndOf
    <3>2. CASE i # Len(g)
      <4>1. i + 1 \in 1 .. Len(g)
        BY <1>1, <1>7, <3>2
      <4>2. g[i + 1] \in Given
        BY <4>1, ElementOfSeq
      <4> QED
        BY <3>2, <4>2 DEF EndOf, Given
    <3> QED
      BY <3>1, <3>2
  <2>3. EndOf(out2, g2, i) = z
    <3>1. i # Len(g2) /\ i \in Nat
      BY <1>1, <1>5, <1>7
    <3>2. CASE i = Len(g)
      BY <1>3, <1>5, <3>1, <3>2 DEF EndOf
    <3>3. CASE i # Len(g)
      <4>1. i + 1 \in 1 .. Len(g)
        BY <1>1, <1>7, <3>3
      <4> QED
        BY <1>5, <3>1, <3>3, <4>1 DEF EndOf
    <3> QED
      BY <3>2, <3>3
  <2>4. g2[i] = g[i]
    BY <1>5, <1>7
  <2> HIDE DEF z
  <2>5. SubSeq(out2, a + 1, z) = SubSeq(out, a + 1, z)
    <3>1. CASE a = z
      <4>1. a + 1 \in Int /\ z \in Int /\ z < a + 1
        BY <2>1, <2>2, <3>1
      <4>2. SubSeq(out2, a + 1, z) = << >> /\ SubSeq(out, a + 1, z) = << >>
        BY <4>1, SubSeqEmpty
      <4> QED
        BY <4>2
    <3>2. CASE a # z
      <4>1. a + 1 \in 1 .. Len(out) /\ z \in 1 .. Len(out)
        <5>1. a \in Nat /\ z \in Nat /\ n \in Nat /\ a <= z /\ z <= n
          BY <1>1, <2>1, <2>2
        <5> HIDE DEF a
        <5>2. a + 1 \in 1 .. n /\ z \in 1 .. n
          BY <3>2, <5>1
        <5> QED
          BY <5>2
      <4> QED
        BY <4>1, SubSeqOfConcat1
    <3> QED
      BY <3>1, <3>2
  <2>6. PartOf(out2, g2, i) = PartOf(out, g, i)
    BY <2>3, <2>4, <2>5 DEF PartOf, z
  <2>7. Before(out2, a) = Before(out, a)
    <3>1. a <= n
      BY <1>1, <2>1, <2>2
    <3> QED
      BY <1>6, <2>1, <3>1
  <2>8. TextKept(out2, g2, i)
    BY <2>1, <2>4, <2>6, <2>7, Zenon DEF TextKept
  <2>9. z <= Len(out2)
    BY <1>1, <1>2, <2>1, <2>2
  <2> QED
    BY <2>1, <2>3, <2>4, <2>8, <2>9
<1>8. ASSUME NEW i, i = Len(g) + 1
      PROVE  /\ g2[i].at <= EndOf(out2, g2, i) /\ EndOf(out2, g2, i) <= Len(out2)
             /\ TextKept(out2, g2, i)
  <2>1. g2[i] = e /\ EndOf(out2, g2, i) = n + Len(x)
    BY <1>2, <1>5, <1>8 DEF EndOf
  <2>2. PartOf(out2, g2, i) = SubSeq(out2, n + 1, n + Len(x))
    BY <1>3, <2>1 DEF PartOf
  <2>3. Len(x) = k
    <3>1. \A j \in 1 .. k : text[j] \in Nat
      BY <1>1, ElementOfSeq
    <3>2. 1 \in Int /\ k \in Int
      BY <1>1
    <3>3. Len(x) = IF 1 <= k THEN k - 1 + 1 ELSE 0
      BY <3>1, <3>2, SubSeqProperties
    <3> QED
      BY <1>1, <3>3
  <2>4. SubSeq(out2, n + 1, n + Len(x)) = x
    <3>1. CASE Len(x) = 0
      <4>1. n + 1 \in Int /\ n + Len(x) \in Int /\ n + Len(x) < n + 1
        BY <1>1, <3>1
      <4>2. x = << >>
        BY <3>1, EmptySeq
      <4> QED
        BY <4>1, <4>2, SubSeqEmpty
    <3>2. CASE Len(x) # 0
      <4>1. /\ n + 1 \in Len(out) + 1 .. Len(out) + Len(x)
            /\ n + Len(x) \in Len(out) + 1 .. Len(out) + Len(x)
            /\ (n + 1) - Len(out) = 1 /\ (n + Len(x)) - Len(out) = Len(x)
        BY <1>1, <3>2
      <4>2. SubSeq(out \o x, n + 1, n + Len(x)) =
              SubSeq(x, (n + 1) - Len(out), (n + Len(x)) - Len(out))
        BY <4>1, SubSeqOfConcat2
      <4>3. SubSeq(x, 1, Len(x)) = x
        BY SubSeqFull
      <4> QED
        BY <4>1, <4>2, <4>3
    <3> QED
      BY <3>1, <3>2
  <2>5. IsPrefix(x, text)
    <3>1. SubSeq(x, 1, Len(x)) = x
      BY SubSeqFull
    <3> QED
      BY <1>1, <2>3, <3>1 DEF IsPrefix
  <2>6. x # text => Before(out2, n) + Len(x) = LineSize - 1
    <3>1. k = Len(text) => x = text
      BY SubSeqFull
    <3>2. Before(out2, n) = Before(out, n)
      BY <1>1, <1>6
    <3> QED
      BY <2>3, <3>1, <3>2
  <2>7. PartOf(out2, g2, i) = x /\ g2[i].text = text /\ g2[i].at = n
    BY <1>3, <2>1, <2>2, <2>4
  <2>8. TextKept(out2, g2, i)
    BY <2>5, <2>6, <2>7, Zenon DEF TextKept
  <2>9. n <= n + Len(x) /\ n + Len(x) <= n + Len(x)
    BY <1>1
  <2>10. g2[i].at <= EndOf(out2, g2, i) /\ EndOf(out2, g2, i) <= Len(out2)
    BY <1>2, <2>1, <2>7, <2>9, Zenon
  <2> QED
    BY <2>8, <2>10
<1>9. \A i \in 1 .. Len(g2) : i \in 1 .. Len(g) \/ i = Len(g) + 1
  BY <1>1, <1>5
<1> QED
  BY <1>5, <1>7, <1>8, <1>9

(* How much of a line waits is what is behind the last newline.            *)
LEMMA BeforeIs ==
  ASSUME NEW sl \in Seq(Nat), NEW ln \in Seq(Nat \ {NL}),
         sl # << >> => sl[Len(sl)] = NL
  PROVE  Before(sl \o ln, Len(sl \o ln)) = Len(ln)
<1> DEFINE out == sl \o ln
           T == {0} \cup {k \in 1 .. Len(out) : out[k] = NL}
<1>1. ln \in Seq(Nat) /\ Len(ln) \in Nat /\ Len(sl) \in Nat
  BY SeqMonotonic, LenProperties
<1>2. /\ Len(out) = Len(sl) + Len(ln)
      /\ \A i \in 1 .. Len(sl) + Len(ln) : out[i] = IF i <= Len(sl) THEN sl[i] ELSE ln[i - Len(sl)]
  BY <1>1, ConcatProperties
<1> HIDE DEF out
<1>3. Len(sl) \in T
  <2>1. CASE sl = << >>
    BY <2>1
  <2>2. CASE sl # << >>
    <3>1. Len(sl) \in 1 .. Len(out) /\ Len(sl) <= Len(sl)
      BY <1>1, <1>2, <2>2, EmptySeq
    <3> QED
      BY <1>2, <2>2, <3>1
  <2> QED
    BY <2>1, <2>2
<1>4. ASSUME NEW y \in T PROVE Len(sl) >= y
  <2>1. CASE y = 0
    BY <1>1, <2>1
  <2>2. CASE y # 0
    <3>1. y \in 1 .. Len(out) /\ out[y] = NL
      BY <1>4, <2>2
    <3>2. ASSUME y > Len(sl) PROVE FALSE
      <4>1. y - Len(sl) \in 1 .. Len(ln) /\ out[y] = ln[y - Len(sl)]
        BY <1>1, <1>2, <3>1, <3>2
      <4>2. ln[y - Len(sl)] \in Nat \ {NL}
        BY <4>1, ElementOfSeq
      <4> QED
        BY <3>1, <4>1, <4>2
    <3> QED
      BY <1>1, <3>1, <3>2
  <2> QED
    BY <2>1, <2>2
<1>5. T \in SUBSET (0 .. Len(out)) /\ Len(out) \in Nat
  BY <1>1, <1>2
<1> HIDE DEF T
<1>6. Max(T) = Len(sl)
  BY <1>3, <1>4, <1>5, MaxIs
<1>7. Before(out, Len(out)) = Len(out) - Max(T)
  BY DEF Before, T
<1>8. Before(out, Len(out)) = Len(ln)
  BY <1>1, <1>2, <1>6, <1>7
<1> QED
  BY <1>8 DEF out

(* vlinesyslog keeps its buffer within its size and without a newline, and
   loses nothing of what fits.                                             *)
LEMMA LineBufferKeeps ==
  ASSUME line \in Seq(Nat \ {NL}), Len(line) < LineSize, syslog \in Seq(Nat),
         given \in Seq(Given), LinesInv, NEW text \in Seq(Nat), vlinesyslog(text)
  PROVE  /\ line' \in Seq(Nat \ {NL}) /\ Len(line') < LineSize
         /\ syslog' \in Seq(Nat) /\ given' \in Seq(Given)
         /\ LinesInv'
         /\ Full => Full'
<1> DEFINE fits == Fits(line \o text)
           ends == LastNewline(fits)
<1>1. line \in Seq(Nat) /\ Len(line) \in Nat /\ LineSize \in Nat /\ Out \in Seq(Nat)
  <2>1. line \in Seq(Nat)
    BY SeqMonotonic
  <2> QED
    BY <2>1, LenProperties, ConcatProperties, LogOutputAssumption DEF Out
<1>2. PICK k \in 0 .. Len(text) : /\ fits = line \o SubSeq(text, 1, k)
                                  /\ k # Len(text) => Len(line) + k = LineSize - 1
                                  /\ Len(line) + k < LineSize
  BY <1>1, FitsIs
<1> DEFINE x == SubSeq(text, 1, k)
<1>3. x \in Seq(Nat) /\ Len(x) = k /\ k \in Nat
  <2>1. Len(text) \in Nat
    BY LenProperties
  <2>2. \A i \in 1 .. k : text[i] \in Nat
    BY <2>1, ElementOfSeq
  <2>3. 1 \in Int /\ k \in Int
    BY <2>1
  <2>4. x \in Seq(Nat) /\ Len(x) = IF 1 <= k THEN k - 1 + 1 ELSE 0
    BY <2>2, <2>3, SubSeqProperties
  <2> QED
    BY <2>1, <2>4
<1>4. /\ syslog' = syslog \o SubSeq(fits, 1, ends)
      /\ line' = SubSeq(fits, ends + 1, Len(fits))
      /\ given' = Append(given, [text |-> text, at |-> Len(Out)])
  BY DEF vlinesyslog, Rest, LastNewline
<1>5. fits \in Seq(Nat) /\ Len(fits) = Len(line) + k /\ fits = line \o x
  BY <1>1, <1>2, <1>3, ConcatProperties
<1> HIDE DEF fits, ends, x
<1>6. /\ ends \in 0 .. Len(fits) /\ (ends # 0 => fits[ends] = NL)
      /\ \A i \in 1 .. Len(fits) : i > ends => fits[i] # NL
  BY <1>5, LastNewlineIsLast DEF ends
<1>7. Len(fits) \in Nat /\ Len(fits) < LineSize /\ ends \in Nat
  BY <1>1, <1>2, <1>3, <1>5, <1>6
<1>8. \A i \in 1 .. Len(fits) : fits[i] \in Nat
  BY <1>5, ElementOfSeq
<1>9. /\ SubSeq(fits, 1, ends) \in Seq(Nat) /\ Len(SubSeq(fits, 1, ends)) = ends
      /\ ends # 0 => SubSeq(fits, 1, ends)[ends] = fits[ends]
  <2>1. \A i \in 1 .. ends : fits[i] \in Nat
    BY <1>6, <1>7, <1>8
  <2>2. 1 \in Int /\ ends \in Int
    BY <1>7
  <2>3. /\ SubSeq(fits, 1, ends) \in Seq(Nat)
        /\ Len(SubSeq(fits, 1, ends)) = IF 1 <= ends THEN ends - 1 + 1 ELSE 0
        /\ \A i \in 1 .. ends - 1 + 1 : SubSeq(fits, 1, ends)[i] = fits[1 + i - 1]
    BY <2>1, <2>2, SubSeqProperties
  <2>4. ends # 0 => ends \in 1 .. ends - 1 + 1 /\ 1 + ends - 1 = ends
    BY <1>7
  <2>5. ends # 0 => SubSeq(fits, 1, ends)[ends] = fits[ends]
    BY <2>3, <2>4
  <2>6. Len(SubSeq(fits, 1, ends)) = ends
    BY <1>7, <2>3
  <2> QED
    BY <2>3, <2>5, <2>6
<1>10. /\ line' \in Seq(Nat \ {NL}) /\ Len(line') < LineSize
       /\ ends = 0 => line' = fits
  <2>1. \A i \in ends + 1 .. Len(fits) : fits[i] \in Nat \ {NL}
    BY <1>6, <1>7, <1>8
  <2>2. ends + 1 \in Int /\ Len(fits) \in Int
    BY <1>7
  <2>3. /\ line' \in Seq(Nat \ {NL})
        /\ Len(line') = IF ends + 1 <= Len(fits) THEN Len(fits) - (ends + 1) + 1 ELSE 0
    BY <1>4, <2>1, <2>2, SubSeqProperties
  <2>4. ends = 0 => line' = fits
    <3>1. ends = 0 => line' = SubSeq(fits, 1, Len(fits))
      BY <1>4
    <3> QED
      BY <1>5, <3>1, SubSeqFull
  <2>5. Len(line') < LineSize
    BY <1>1, <1>7, <2>3
  <2> QED
    BY <2>3, <2>4, <2>5
<1>11. syslog' \in Seq(Nat)
  BY <1>4, <1>9, ConcatProperties
<1>12. Out' = Out \o x
  <2>1. SubSeq(fits, 1, ends) \o line' = fits
    <3>1. 1 \in 1 .. Len(fits) + 1 /\ ends \in 1 - 1 .. Len(fits) /\ Len(fits) \in ends .. Len(fits)
      BY <1>6, <1>7
    <3>2. SubSeq(fits, 1, ends) \o SubSeq(fits, ends + 1, Len(fits)) = SubSeq(fits, 1, Len(fits))
      BY <1>5, <3>1, ConcatAdjacentSubSeq
    <3>3. SubSeq(fits, 1, Len(fits)) = fits
      BY <1>5, SubSeqFull
    <3> QED
      BY <1>4, <3>2, <3>3
  <2>2. line' \in Seq(Nat)
    BY <1>10, SeqMonotonic
  <2>3. (syslog \o SubSeq(fits, 1, ends)) \o line' = syslog \o (SubSeq(fits, 1, ends) \o line')
    BY <1>9, <2>2, Associates, ZenonT(40)
  <2>4. (syslog \o line) \o x = syslog \o (line \o x)
    BY <1>1, <1>3, Associates, ZenonT(40)
  <2> QED
    BY <1>4, <1>5, <2>1, <2>3, <2>4 DEF Out
<1>13. /\ IF given = << >> THEN Out = << >> ELSE given[1].at = 0
       /\ \A i \in 1 .. Len(given) :
            /\ given[i].at <= EndOf(Out, given, i) /\ EndOf(Out, given, i) <= Len(Out)
            /\ TextKept(Out, given, i)
       /\ syslog # << >> => syslog[Len(syslog)] = NL
  <2>1. LinesKept /\ Marks
    BY DEF LinesInv
  <2>2. \A i : End(i) = EndOf(Out, given, i)
    BY DEF End, EndOf
  <2>3. \A i \in 1 .. Len(given) :
          given[i].at <= EndOf(Out, given, i) /\ EndOf(Out, given, i) <= Len(Out)
    BY <2>1, <2>2, Zenon DEF Marks
  <2> QED
    BY <2>1, <2>3, KeptIs, Zenon
<1>14. Before(Out, Len(Out)) = Len(line)
  BY <1>13, BeforeIs DEF Out
<1>15. /\ given' \in Seq(Given)
       /\ \A i \in 1 .. Len(given') :
            /\ given'[i].at <= EndOf(Out', given', i) /\ EndOf(Out', given', i) <= Len(Out')
            /\ TextKept(Out', given', i)
  <2>1. k # Len(text) => Before(Out, Len(Out)) + k = LineSize - 1
    BY <1>2, <1>14
  <2> QED
    BY <1>1, <1>3, <1>4, <1>12, <1>13, <2>1, TextsKept DEF x
<1>16. given' # << >> /\ given'[1].at = 0
  <2> DEFINE e == [text |-> text, at |-> Len(Out)]
  <2>1. e \in Given /\ e.at = Len(Out)
    BY <1>1, LenProperties DEF Given
  <2>5. given' = Append(given, e)
    BY <1>4
  <2> HIDE DEF e
  <2>2. /\ given' # << >> /\ Len(given) \in Nat
        /\ \A i \in 1 .. Len(given) : given'[i] = given[i]
        /\ given'[Len(given) + 1] = e
    <3>1. Append(given, e) # << >> /\ Len(given) \in Nat
      <4>1. Len(given) \in Nat
        BY LenProperties
      <4>2. Append(given, e) # << >>
        BY <2>1, AppendProperties
      <4> QED
        BY <4>1, <4>2
    <3>2. /\ \A i \in 1 .. Len(given) : Append(given, e)[i] = given[i]
          /\ Append(given, e)[Len(given) + 1] = e
      BY <2>1, AppendProperties
    <3> DEFINE longer == Append(given, e)
    <3>3. given' = longer
      BY <2>5
    <3>4. /\ longer # << >> /\ Len(given) \in Nat
          /\ \A i \in 1 .. Len(given) : longer[i] = given[i]
          /\ longer[Len(given) + 1] = e
      BY <3>1, <3>2
    <3> HIDE DEF longer
    <3> QED
      BY <3>3, <3>4
  <2>3. CASE given = << >>
    <3>1. Len(given) = 0 /\ Len(Out) = 0
      BY <1>13, <2>3
    <3> QED
      BY <2>1, <2>2, <3>1
  <2>4. CASE given # << >>
    <3>1. 1 \in 1 .. Len(given)
      BY <2>2, <2>4, EmptySeq
    <3> QED
      BY <1>13, <2>2, <2>4, <3>1
  <2> QED
    BY <2>3, <2>4
<1>17. syslog' # << >> => syslog'[Len(syslog')] = NL
  <2>1. CASE ends = 0
    <3>1. SubSeq(fits, 1, ends) = << >>
      BY <1>9, <2>1, EmptySeq
    <3>2. syslog' = syslog
      BY <1>4, <3>1, ConcatEmptySeq
    <3> QED
      BY <1>13, <3>2
  <2>2. CASE ends # 0
    <3>1. /\ Len(syslog') = Len(syslog) + ends /\ Len(syslog) \in Nat
          /\ \A i \in 1 .. Len(syslog) + ends :
               syslog'[i] = IF i <= Len(syslog) THEN syslog[i]
                            ELSE SubSeq(fits, 1, ends)[i - Len(syslog)]
      <4> DEFINE lines == SubSeq(fits, 1, ends)
      <4>1. syslog' = syslog \o lines /\ lines \in Seq(Nat) /\ Len(lines) = ends
        BY <1>4, <1>9
      <4> HIDE DEF lines
      <4>2. /\ Len(syslog \o lines) = Len(syslog) + Len(lines)
            /\ \A i \in 1 .. Len(syslog) + Len(lines) :
                 (syslog \o lines)[i] = IF i <= Len(syslog) THEN syslog[i]
                                        ELSE lines[i - Len(syslog)]
        BY <4>1, ConcatProperties
      <4>3. Len(syslog) \in Nat
        BY LenProperties
      <4>4. /\ Len(syslog') = Len(syslog) + ends
            /\ \A i \in 1 .. Len(syslog) + ends :
                 syslog'[i] = IF i <= Len(syslog) THEN syslog[i] ELSE lines[i - Len(syslog)]
        BY <4>1, <4>2
      <4> QED
        BY <4>3, <4>4 DEF lines
    <3>2. /\ Len(syslog) + ends \in 1 .. Len(syslog) + ends
          /\ ~ (Len(syslog) + ends <= Len(syslog))
          /\ (Len(syslog) + ends) - Len(syslog) = ends
      BY <1>7, <2>2, <3>1
    <3> QED
      BY <1>6, <1>9, <2>2, <3>1, <3>2
  <2> QED
    BY <2>1, <2>2
<1>18. LinesInv'
  <2>1. \A i : (End(i) = EndOf(Out, given, i))'
    BY DEF End, EndOf
  <2>2. Marks'
    BY <1>15, <2>1 DEF Marks, EndOf
  <2>3. LinesKept' <=>
          /\ IF given' = << >> THEN Out' = << >> ELSE given'[1].at = 0
          /\ \A i \in 1 .. Len(given') : TextKept(Out', given', i)
          /\ syslog' # << >> => syslog'[Len(syslog')] = NL
    BY Zenon DEF LinesKept, TextKept, Taken, Waiting, End, EndOf, PartOf, Before
  <2> QED
    BY <1>15, <1>16, <1>17, <2>2, <2>3 DEF LinesInv
<1>19. Full => Full'
  <2> SUFFICES ASSUME Full PROVE Full'
    OBVIOUS
  <2>1. k = 0 /\ Len(fits) = Len(line)
    BY <1>1, <1>2, <1>3, <1>5 DEF Full
  <2>2. fits = line
    <3>1. x = << >>
      BY <1>3, <2>1, EmptySeq
    <3> QED
      BY <1>1, <1>5, <3>1, ConcatEmptySeq
  <2>3. ends = 0
    <3>1. ASSUME ends # 0 PROVE FALSE
      <4>1. ends \in 1 .. Len(line) /\ line[ends] = NL
        BY <1>6, <1>7, <2>2, <3>1
      <4>2. line[ends] \in Nat \ {NL}
        BY <4>1, ElementOfSeq
      <4> QED
        BY <4>1, <4>2
    <3> QED
      BY <3>1
  <2> QED
    BY <1>10, <2>2, <2>3 DEF Full
<1> QED
  BY <1>10, <1>11, <1>15, <1>18, <1>19

(* Nothing goes through vlinesyslog.                                       *)
LEMMA SameLines ==
  ASSUME LinesInv, UNCHANGED <<line, syslog, given>>
  PROVE  LinesInv'
<1>1. Out' = Out
  BY DEF Out
<1>2. \A i : End(i)' = End(i)
  BY <1>1 DEF End
<1>3. \A i : Taken(i)' = Taken(i) /\ Waiting(i)' = Waiting(i)
  BY <1>1, <1>2 DEF Taken, Waiting
<1>4. LinesKept'
  BY <1>1, <1>3 DEF LinesInv, LinesKept
<1>5. Marks'
  BY <1>1, <1>2 DEF LinesInv, Marks
<1> QED
  BY <1>4, <1>5 DEF LinesInv

-----------------------------------------------------------------------------
(* The text of all files: FlattenSeq by its partial sums *)

Sums(f, fs, n) ==
  /\ f \in [1 .. n -> Seq(Nat)]
  /\ \A i \in 1 .. n : f[i] = IF i = 1 THEN fs[i] ELSE f[i - 1] \o fs[i]

LEMMA SumsStep ==
  ASSUME NEW fs \in Seq(Seq(Nat)), NEW n \in Nat, n < Len(fs),
         NEW f, Sums(f, fs, n)
  PROVE  \E g : Sums(g, fs, n + 1)
<1> DEFINE last == IF n = 0 THEN fs[n + 1] ELSE f[n] \o fs[n + 1]
           g == [i \in 1 .. n + 1 |-> IF i <= n THEN f[i] ELSE last]
<1>1. Len(fs) \in Nat
  BY LenProperties
<1>2. fs[n + 1] \in Seq(Nat)
  BY <1>1, ElementOfSeq
<1>3. last \in Seq(Nat)
  <2>1. CASE n = 0
    BY <1>2, <2>1
  <2>2. CASE n # 0
    <3>1. f[n] \in Seq(Nat)
      BY <2>2 DEF Sums
    <3>2. f[n] \o fs[n + 1] \in Seq(Nat)
      BY <1>2, <3>1, ConcatProperties
    <3> QED
      BY <2>2, <3>2
  <2> QED
    BY <2>1, <2>2
<1>4. n + 1 > n /\ (n = 0 <=> n + 1 = 1) /\ (n + 1) - 1 = n
  OBVIOUS
<1>5. last = IF n + 1 = 1 THEN fs[n + 1] ELSE f[n] \o fs[n + 1]
  BY <1>4
<1> HIDE DEF last
<1>6. g \in [1 .. n + 1 -> Seq(Nat)]
  BY <1>3 DEF Sums
<1>7. ASSUME NEW i \in 1 .. n + 1
      PROVE  g[i] = IF i = 1 THEN fs[i] ELSE g[i - 1] \o fs[i]
  <2>1. CASE i <= n
    <3>1. i \in 1 .. n /\ g[i] = f[i] /\ (i # 1 => g[i - 1] = f[i - 1])
      BY <2>1
    <3> QED
      BY <3>1 DEF Sums
  <2>2. CASE ~ (i <= n)
    <3>1. i = n + 1 /\ g[i] = last /\ (i # 1 => g[i - 1] = f[n])
      BY <2>2
    <3> QED
      BY <1>5, <3>1
  <2> QED
    BY <2>1, <2>2
<1> HIDE DEF g
<1>8. Sums(g, fs, n + 1)
  BY <1>6, <1>7 DEF Sums
<1> QED
  BY <1>8

LEMMA SumsExist ==
  ASSUME NEW fs \in Seq(Seq(Nat))
  PROVE  \E f : Sums(f, fs, Len(fs))
<1> DEFINE T == {n \in 0 .. Len(fs) : ~ \E f : Sums(f, fs, n)}
<1>1. Len(fs) \in Nat
  BY LenProperties
<1>2. SUFFICES ASSUME T # {} PROVE FALSE
  <2>1. Len(fs) \in 0 .. Len(fs)
    BY <1>1
  <2> QED
    BY <2>1
<1>3. PICK n \in T : \A y \in T : n <= y
  <2>1. T \in SUBSET Nat
    BY <1>1
  <2> QED
    BY <1>2, <2>1, LeastExists
<1>4. n # 0
  <2>1. Sums([i \in 1 .. 0 |-> << >>], fs, 0)
    BY EmptySeq DEF Sums
  <2> QED
    BY <2>1
<1>5. n - 1 \in Nat /\ n - 1 < Len(fs) /\ n - 1 \in 0 .. Len(fs) /\ (n - 1) + 1 = n
  BY <1>1, <1>4
<1>6. n - 1 \notin T
  <2>1. n \in Nat
    BY <1>1
  <2> HIDE DEF T
  <2>2. n - 1 \in T => n <= n - 1
    BY <1>3
  <2> QED
    BY <2>1, <2>2
<1>7. PICK f : Sums(f, fs, n - 1)
  BY <1>5, <1>6
<1>8. \E g : Sums(g, fs, (n - 1) + 1)
  BY <1>5, <1>7, SumsStep
<1> QED
  BY <1>5, <1>8

LEMMA FlattenIsSum ==
  ASSUME NEW fs \in Seq(Seq(Nat)), Len(fs) > 0
  PROVE  \E f : Sums(f, fs, Len(fs)) /\ FlattenSeq(fs) = f[Len(fs)]
<1> DEFINE Is(f) == f = [i \in 1 .. Len(fs) |-> IF i = 1 THEN fs[i] ELSE f[i - 1] \o fs[i]]
           flat == CHOOSE f : Is(f)
<1>1. Len(fs) \in Nat /\ Len(fs) # 0
  BY LenProperties
<1>2. FlattenSeq(fs) = flat[Len(fs)]
  BY <1>1, Zenon DEF FlattenSeq
<1>3. PICK f : Sums(f, fs, Len(fs))
  BY SumsExist
<1>4. Is(f)
  BY <1>3 DEF Sums
<1>5. Is(flat)
  BY <1>4
<1> HIDE DEF flat
<1>6. \A i \in 1 .. Len(fs) : flat[i] = IF i = 1 THEN fs[i] ELSE flat[i - 1] \o fs[i]
  BY <1>5
<1>7. \A i \in 1 .. Len(fs) : flat[i] = f[i]
  <2> DEFINE T == {i \in 1 .. Len(fs) : flat[i] # f[i]}
  <2>1. SUFFICES ASSUME T # {} PROVE FALSE
    OBVIOUS
  <2>2. PICK n \in T : \A y \in T : n <= y
    <3>1. T \in SUBSET Nat
      BY <1>1
    <3> QED
      BY <2>1, <3>1, LeastExists
  <2>3. CASE n = 1
    BY <1>3, <1>6, <2>3 DEF Sums
  <2>4. CASE n # 1
    <3>1. n - 1 \in 1 .. Len(fs) /\ n - 1 < n
      BY <1>1, <2>4
    <3>2. n - 1 \in T => n <= n - 1
      BY <2>2, Zenon
    <3>3. flat[n - 1] = f[n - 1]
      BY <1>1, <3>1, <3>2
    <3> QED
      BY <1>3, <1>6, <2>4, <3>3 DEF Sums
  <2> QED
    BY <2>3, <2>4
<1>8. Len(fs) \in 1 .. Len(fs)
  BY <1>1
<1> QED
  BY <1>2, <1>3, <1>7, <1>8

(* Sums of the same files are the same.                                    *)
SameUpTo(k, fs, gs) == \A i \in 1 .. k : fs[i] = gs[i]

LEMMA SumsEqual ==
  ASSUME NEW n \in Nat, NEW k \in 0 .. n, NEW m \in Nat, k <= m,
         NEW fs, NEW gs, SameUpTo(k, fs, gs),
         NEW f, Sums(f, fs, n), NEW g, Sums(g, gs, m)
  PROVE  \A i \in 1 .. k : f[i] = g[i]
<1> DEFINE T == {i \in 1 .. k : f[i] # g[i]}
<1>1. SUFFICES ASSUME T # {} PROVE FALSE
  OBVIOUS
<1>2. PICK i \in T : \A y \in T : i <= y
  <2>1. T \in SUBSET Nat
    OBVIOUS
  <2> QED
    BY <1>1, <2>1, LeastExists
<1>3. i \in 1 .. n /\ i \in 1 .. m /\ fs[i] = gs[i]
  BY DEF SameUpTo
<1>4. CASE i = 1
  BY <1>3, <1>4 DEF Sums
<1>5. CASE i # 1
  <2>1. i - 1 \in T => i <= i - 1
    BY <1>2, Zenon
  <2>2. i - 1 \in 1 .. k /\ ~ (i <= i - 1)
    BY <1>5
  <2>3. f[i - 1] = g[i - 1]
    BY <2>1, <2>2
  <2>4. f[i] = f[i - 1] \o fs[i]
    BY <1>3, <1>5 DEF Sums
  <2>5. g[i] = g[i - 1] \o gs[i]
    BY <1>3, <1>5 DEF Sums
  <2>6. f[i] = g[i]
    BY <1>3, <2>3, <2>4, <2>5
  <2> QED
    BY <2>6
<1> QED
  BY <1>4, <1>5

(* Empty files add nothing.                                                *)
LEMMA SumsStay ==
  ASSUME NEW n \in Nat, NEW k \in 1 .. n, NEW fs, NEW f, Sums(f, fs, n),
         \A i \in 1 .. n : i > k => fs[i] = << >>
  PROVE  f[n] = f[k]
<1> DEFINE T == {i \in k .. n : f[i] # f[k]}
<1>1. SUFFICES ASSUME T # {} PROVE FALSE
  OBVIOUS
<1>2. PICK i \in T : \A y \in T : i <= y
  <2>1. T \in SUBSET Nat
    OBVIOUS
  <2> QED
    BY <1>1, <2>1, LeastExists
<1>3. i # k /\ i \in 1 .. n /\ i > k /\ i # 1
  OBVIOUS
<1>4. i - 1 \in T => i <= i - 1
  BY <1>2, Zenon
<1>5. i - 1 \in k .. n /\ i - 1 \in 1 .. n /\ ~ (i <= i - 1)
  BY <1>3
<1>6. f[i - 1] = f[k]
  BY <1>4, <1>5
<1>7. f[i] = f[i - 1] \o << >>
  BY <1>3 DEF Sums
<1>8. f[i - 1] \in Seq(Nat)
  BY <1>5 DEF Sums
<1>9. f[i] = f[i - 1]
  BY <1>7, <1>8, ConcatEmptySeq
<1> QED
  BY <1>6, <1>9

LEMMA FlattenType ==
  ASSUME NEW fs \in Seq(Seq(Nat)), Len(fs) > 0
  PROVE  FlattenSeq(fs) \in Seq(Nat)
<1>1. PICK f : Sums(f, fs, Len(fs)) /\ FlattenSeq(fs) = f[Len(fs)]
  BY FlattenIsSum
<1>2. Len(fs) \in 1 .. Len(fs)
  BY LenProperties
<1> QED
  BY <1>1, <1>2 DEF Sums

(* A new file changes nothing.                                             *)
LEMMA FlattenNew ==
  ASSUME NEW fs \in Seq(Seq(Nat)), Len(fs) > 0
  PROVE  /\ Append(fs, << >>) \in Seq(Seq(Nat))
         /\ Len(Append(fs, << >>)) = Len(fs) + 1
         /\ \A i \in 1 .. Len(fs) : Append(fs, << >>)[i] = fs[i]
         /\ Append(fs, << >>)[Len(fs) + 1] = << >>
         /\ FlattenSeq(Append(fs, << >>)) = FlattenSeq(fs)
<1> DEFINE gs == Append(fs, << >>)
           n == Len(fs)
<1>0. n \in Nat /\ n > 0 /\ << >> \in Seq(Nat)
  BY LenProperties, EmptySeq
<1>1. /\ gs \in Seq(Seq(Nat)) /\ Len(gs) = n + 1
      /\ \A i \in 1 .. n : gs[i] = fs[i]
      /\ gs[n + 1] = << >>
  BY <1>0, AppendProperties
<1> HIDE DEF gs
<1>2. PICK f : Sums(f, fs, n) /\ FlattenSeq(fs) = f[n]
  BY <1>0, FlattenIsSum
<1>3. PICK g : Sums(g, gs, n + 1) /\ FlattenSeq(gs) = g[n + 1]
  <2>1. gs \in Seq(Seq(Nat)) /\ Len(gs) > 0 /\ Len(gs) = n + 1
    BY <1>0, <1>1
  <2>2. \E g : Sums(g, gs, Len(gs)) /\ FlattenSeq(gs) = g[Len(gs)]
    BY <2>1, FlattenIsSum
  <2> QED
    BY <2>1, <2>2
<1>4. \A i \in 1 .. n : f[i] = g[i]
  <2>1. n \in 0 .. n /\ n + 1 \in Nat /\ n <= n + 1 /\ SameUpTo(n, fs, gs)
    BY <1>0, <1>1 DEF SameUpTo
  <2> HIDE DEF n
  <2> QED
    BY <1>0, <1>2, <1>3, <2>1, SumsEqual
<1>5. g[n + 1] = g[n]
  <2>1. n \in 1 .. n + 1 /\ n + 1 \in Nat
    BY <1>0
  <2>2. \A i \in 1 .. n + 1 : i > n => gs[i] = << >>
    BY <1>0, <1>1
  <2> HIDE DEF n
  <2> QED
    BY <1>0, <1>3, <2>1, <2>2, SumsStay
<1>6. f[n] = g[n]
  BY <1>0, <1>4, SMTT(40)
<1> QED
  BY <1>1, <1>2, <1>3, <1>5, <1>6 DEF gs

(* Text appended to the last file that has any is appended to the whole.   *)
LEMMA FlattenWrite ==
  ASSUME NEW fs \in Seq(Seq(Nat)), NEW k \in 1 .. Len(fs), NEW text \in Seq(Nat),
         \A i \in 1 .. Len(fs) : i > k => fs[i] = << >>
  PROVE  LET gs == [fs EXCEPT ![k] = @ \o text]
         IN  /\ gs \in Seq(Seq(Nat)) /\ Len(gs) = Len(fs)
             /\ \A i \in 1 .. Len(fs) : i > k => gs[i] = << >>
             /\ FlattenSeq(gs) = FlattenSeq(fs) \o text
<1> DEFINE gs == [fs EXCEPT ![k] = @ \o text]
           n == Len(fs)
<1>0. n \in Nat /\ n > 0 /\ fs[k] \in Seq(Nat)
  BY LenProperties, ElementOfSeq
<1>1. fs[k] \o text \in Seq(Nat)
  BY <1>0, ConcatProperties
<1>2. /\ gs \in Seq(Seq(Nat)) /\ Len(gs) = n
      /\ \A i \in 1 .. n : gs[i] = IF i = k THEN fs[k] \o text ELSE fs[i]
  BY <1>1, ExceptSeq
<1> HIDE DEF gs
<1>3. PICK f : Sums(f, fs, n) /\ FlattenSeq(fs) = f[n]
  BY <1>0, FlattenIsSum
<1>4. PICK g : Sums(g, gs, n) /\ FlattenSeq(gs) = g[n]
  BY <1>0, <1>2, FlattenIsSum
<1>5. \A i \in 1 .. n : i > k => gs[i] = << >>
  <2>1. \A i \in 1 .. n : i > k => i # k /\ fs[i] = << >>
    OBVIOUS
  <2> QED
    BY <1>2, <2>1
<1>n. k \in 1 .. n /\ \A i \in 1 .. n : i > k => fs[i] = << >>
  OBVIOUS
<1> HIDE DEF n
<1>6. f[n] = f[k]
  BY <1>0, <1>3, <1>n, SumsStay
<1>7. g[n] = g[k]
  BY <1>0, <1>4, <1>5, <1>n, SumsStay
<1>8. g[k] = f[k] \o text
  <2>1. CASE k = 1
    <3>1. g[k] = gs[k] /\ f[k] = fs[k] /\ gs[k] = fs[k] \o text
      BY <1>2, <1>3, <1>4, <1>n, <2>1 DEF Sums
    <3> QED
      BY <3>1
  <2>2. CASE k # 1
    <3>0. SameUpTo(k - 1, fs, gs)
      <4>1. \A i \in 1 .. k - 1 : i \in 1 .. n /\ i # k
        BY <1>0, <1>n
      <4> QED
        BY <1>2, <4>1 DEF SameUpTo
    <3>1. /\ k - 1 \in 0 .. n /\ k - 1 <= n /\ k - 1 \in 1 .. k - 1 /\ k - 1 \in 1 .. n
      BY <1>0, <1>n, <2>2
    <3>2. \A i \in 1 .. k - 1 : f[i] = g[i]
      BY <1>0, <1>3, <1>4, <3>0, <3>1, SumsEqual
    <3>3. g[k - 1] = f[k - 1] /\ f[k - 1] \in Seq(Nat)
      BY <1>3, <3>1, <3>2 DEF Sums
    <3>4. f[k] = f[k - 1] \o fs[k] /\ g[k] = g[k - 1] \o gs[k] /\ gs[k] = fs[k] \o text
      BY <1>2, <1>3, <1>4, <1>n, <2>2 DEF Sums
    <3>5. (f[k - 1] \o fs[k]) \o text = f[k - 1] \o (fs[k] \o text)
      BY <1>0, <3>3, Associates
    <3> QED
      BY <3>3, <3>4, <3>5
  <2> QED
    BY <2>1, <2>2
<1>9. FlattenSeq(gs) = FlattenSeq(fs) \o text
  BY <1>3, <1>4, <1>6, <1>7, <1>8
<1> QED
  BY <1>2, <1>5, <1>9 DEF gs, n

-----------------------------------------------------------------------------
(* The lookup: what a line changes *)

Chain(hl, i, n) == hl[i].opts[hash[n]]
Named(c, n) == {j \in 1 .. Len(c) : c[j].name = n}
Found(hl, header, n) ==
  {i \in 1 .. Len(hl) : hl[i].name = header /\ Named(Chain(hl, i, n), n) # {}}
FirstOf(c, n) == c[Min(Named(c, n))].val

LEMMA LookupByChains ==
  ASSUME NEW hl, NEW header, NEW n
  PROVE  LookupIn(hl, header, n) =
           IF Found(hl, header, n) = {} THEN NONE
           ELSE FirstOf(Chain(hl, Min(Found(hl, header, n)), n), n)
<1> DEFINE hits == {i \in 1 .. Len(hl) :
                      /\ hl[i].name = header
                      /\ \E j \in 1 .. Len(Chain(hl, i, n)) : Chain(hl, i, n)[j].name = n}
<1>1. hits = Found(hl, header, n)
  BY DEF Found, Named
<1>2. LookupIn(hl, header, n) =
        IF hits = {} THEN NONE ELSE FirstOf(Chain(hl, Min(hits), n), n)
  BY DEF LookupIn, Chain, FirstOf, Named
<1> HIDE DEF hits
<1> QED
  BY <1>1, <1>2

LEMMA ChainType ==
  ASSUME NEW hl \in Seq(Header), NEW i \in 1 .. Len(hl), NEW n \in Names
  PROVE  Chain(hl, i, n) \in Seq(OptLine)
<1>1. hl[i] \in Header
  BY ElementOfSeq
<1>2. hash[n] \in 1 .. Buckets
  BY OptionsAssumption
<1> QED
  BY <1>1, <1>2 DEF Chain, Header

LEMMA FirstOfIs ==
  ASSUME NEW c \in Seq(OptLine), NEW n, Named(c, n) # {}
  PROVE  /\ Min(Named(c, n)) \in Named(c, n)
         /\ \A j \in Named(c, n) : Min(Named(c, n)) <= j
         /\ FirstOf(c, n) \in STRING \ {NONE}
<1>1. Named(c, n) \in SUBSET Nat
  BY DEF Named
<1>2. /\ Min(Named(c, n)) \in Named(c, n)
      /\ \A j \in Named(c, n) : Min(Named(c, n)) <= j
  BY <1>1, MinIsLeast
<1>3. Min(Named(c, n)) \in 1 .. Len(c)
  BY <1>2 DEF Named
<1>4. c[Min(Named(c, n))] \in OptLine
  BY <1>3, ElementOfSeq
<1> QED
  BY <1>2, <1>4 DEF FirstOf, OptLine

(* A value that is found is not NULL.                                      *)
LEMMA LookupFinds ==
  ASSUME NEW hl \in Seq(Header), NEW header, NEW n \in Names
  PROVE  LookupIn(hl, header, n) = NONE <=> Found(hl, header, n) = {}
<1> DEFINE F == Found(hl, header, n)
<1>1. ASSUME F # {} PROVE FirstOf(Chain(hl, Min(F), n), n) # NONE
  <2>1. F \in SUBSET Nat
    BY DEF Found
  <2>2. Min(F) \in F
    BY <1>1, <2>1, MinIsLeast
  <2>3. Min(F) \in 1 .. Len(hl) /\ Named(Chain(hl, Min(F), n), n) # {}
    BY <2>2 DEF Found
  <2>4. Chain(hl, Min(F), n) \in Seq(OptLine)
    BY <2>3, ChainType
  <2> QED
    BY <2>3, <2>4, FirstOfIs
<1> QED
  BY <1>1, LookupByChains

(* A new option is behind the others of its chain.                         *)
LEMMA FirstOfAppend ==
  ASSUME NEW c \in Seq(OptLine), NEW x \in OptLine, NEW n
  PROVE  /\ Named(c, n) # {} =>
              Named(Append(c, x), n) # {} /\ FirstOf(Append(c, x), n) = FirstOf(c, n)
         /\ Named(c, n) = {} /\ x.name = n =>
              Named(Append(c, x), n) # {} /\ FirstOf(Append(c, x), n) = x.val
         /\ Named(c, n) = {} /\ x.name # n => Named(Append(c, x), n) = {}
<1> DEFINE d == Append(c, x)
<1>1. Len(c) \in Nat
  BY LenProperties
<1>2. /\ d \in Seq(OptLine) /\ Len(d) = Len(c) + 1
      /\ \A j \in 1 .. Len(c) : d[j] = c[j]
      /\ d[Len(c) + 1] = x
  BY AppendProperties
<1> HIDE DEF d
<1>3. \A j : j \in Named(d, n) <=> j \in Named(c, n) \/ (j = Len(c) + 1 /\ x.name = n)
  BY <1>1, <1>2 DEF Named
<1>4. Named(c, n) \in SUBSET Nat /\ Named(d, n) \in SUBSET Nat
  BY DEF Named
<1>5. ASSUME Named(c, n) # {}
      PROVE  Named(d, n) # {} /\ FirstOf(d, n) = FirstOf(c, n)
  <2> DEFINE m == Min(Named(c, n))
  <2>1. m \in Named(c, n) /\ \A j \in Named(c, n) : m <= j
    BY <1>4, <1>5, MinIsLeast
  <2> HIDE DEF m
  <2>2. m \in 1 .. Len(c)
    BY <2>1 DEF Named
  <2>3. m \in Named(d, n) /\ \A j \in Named(d, n) : m <= j
    BY <1>1, <1>3, <2>1, <2>2
  <2>4. Min(Named(d, n)) = m
    BY <1>4, <2>3, MinIs
  <2>5. FirstOf(d, n) = d[m].val /\ FirstOf(c, n) = c[m].val
    BY <2>4 DEF FirstOf, m
  <2> QED
    BY <1>2, <2>2, <2>3, <2>5
<1>6. ASSUME Named(c, n) = {}, x.name = n
      PROVE  Named(d, n) # {} /\ FirstOf(d, n) = x.val
  <2>1. Named(d, n) = {Len(c) + 1}
    BY <1>3, <1>6
  <2>2. Min(Named(d, n)) = Len(c) + 1
    BY <1>1, <1>4, <2>1, MinIs
  <2> QED
    BY <1>2, <2>1, <2>2 DEF FirstOf
<1>7. ASSUME Named(c, n) = {}, x.name # n PROVE Named(d, n) = {}
  BY <1>3, <1>7
<1> QED
  BY <1>5, <1>6, <1>7 DEF d

(* A new header has nothing in it.                                         *)
LEMMA HeaderChanges ==
  ASSUME NEW hl \in Seq(Header), NEW nm \in Sections
  PROVE  LET new == new_header(hl, nm)
         IN  /\ new \in Seq(Header) /\ Len(new) = Len(hl) + 1 /\ new # << >>
             /\ new[Len(new)].name = nm
             /\ \A header \in Sections, n \in Names :
                  LookupIn(new, header, n) = LookupIn(hl, header, n)
<1> DEFINE new == new_header(hl, nm)
           hd == [name |-> nm, opts |-> [h \in 1 .. Buckets |-> << >>]]
<1>1. Len(hl) \in Nat
  BY LenProperties
<1>2. hd \in Header
  BY EmptySeq DEF Header
<1>3. new = Append(hl, hd)
  BY DEF new_header
<1>4. hd.name = nm /\ \A h \in 1 .. Buckets : hd.opts[h] = << >>
  OBVIOUS
<1> HIDE DEF new, hd
<1>5. /\ new \in Seq(Header) /\ Len(new) = Len(hl) + 1
      /\ \A i \in 1 .. Len(hl) : new[i] = hl[i]
      /\ new[Len(hl) + 1] = hd
  BY <1>2, <1>3, AppendProperties
<1>6. ASSUME NEW header \in Sections, NEW n \in Names
      PROVE  LookupIn(new, header, n) = LookupIn(hl, header, n)
  <2>1. hash[n] \in 1 .. Buckets
    BY OptionsAssumption
  <2>2. \A i \in 1 .. Len(hl) : Chain(new, i, n) = Chain(hl, i, n)
    BY <1>5 DEF Chain
  <2>3. Chain(new, Len(hl) + 1, n) = << >>
    BY <1>4, <1>5, <2>1 DEF Chain
  <2>4. Named(<< >>, n) = {}
    BY EmptySeq DEF Named
  <2>5. \A i \in 1 .. Len(new) : i \in 1 .. Len(hl) \/ i = Len(hl) + 1
    BY <1>1, <1>5
  <2>6. \A i \in 1 .. Len(hl) : i \in 1 .. Len(new)
    BY <1>1, <1>5
  <2>7. Found(new, header, n) = Found(hl, header, n)
    BY <1>5, <2>2, <2>3, <2>4, <2>5, <2>6 DEF Found
  <2>8. CASE Found(hl, header, n) = {}
    BY <2>7, <2>8, LookupByChains
  <2>9. CASE Found(hl, header, n) # {}
    <3>1. Found(hl, header, n) \in SUBSET Nat
      BY DEF Found
    <3>2. Min(Found(hl, header, n)) \in Found(hl, header, n)
      BY <2>9, <3>1, MinIsLeast
    <3>3. Min(Found(hl, header, n)) \in 1 .. Len(hl)
      BY <3>2 DEF Found
    <3> QED
      BY <2>2, <2>7, <2>9, <3>3, LookupByChains
  <2> QED
    BY <2>8, <2>9
<1>7. new # << >> /\ new[Len(new)].name = nm
  BY <1>1, <1>4, <1>5, EmptySeq
<1> QED
  BY <1>5, <1>6, <1>7 DEF new

(* An option changes the chain of its name in the last header.             *)
Added(hl, opt) == [hl EXCEPT ![Len(hl)].opts[hash[opt.name]] = Append(@, opt)]

LEMMA AddedIs ==
  ASSUME NEW hl \in Seq(Header), hl # << >>, NEW opt \in OptLine
  PROVE  /\ Added(hl, opt) \in Seq(Header) /\ Len(Added(hl, opt)) = Len(hl)
         /\ \A i \in 1 .. Len(hl) : Added(hl, opt)[i].name = hl[i].name
         /\ \A i \in 1 .. Len(hl), n \in Names :
              Chain(Added(hl, opt), i, n) =
                IF i = Len(hl) /\ hash[n] = hash[opt.name]
                  THEN Append(Chain(hl, i, n), opt) ELSE Chain(hl, i, n)
<1> DEFINE new == Added(hl, opt)
           last == Len(hl)
           b == hash[opt.name]
           os == [hl[last].opts EXCEPT ![b] = Append(@, opt)]
           hd == [hl[last] EXCEPT !.opts = os]
<1>1. last \in 1 .. last /\ last \in Nat
  BY EmptySeq
<1>2. hl[last] \in Header /\ b \in 1 .. Buckets
  BY <1>1, ElementOfSeq, OptionsAssumption DEF OptLine
<1>3. hl[last].opts \in [1 .. Buckets -> Seq(OptLine)] /\ hl[last].name \in Sections
  BY <1>2 DEF Header
<1>4. Append(hl[last].opts[b], opt) \in Seq(OptLine)
  <2>1. hl[last].opts[b] \in Seq(OptLine)
    BY <1>2, <1>3
  <2> QED
    BY <2>1, AppendProperties
<1>5. /\ os \in [1 .. Buckets -> Seq(OptLine)]
      /\ \A h \in 1 .. Buckets :
           os[h] = IF h = b THEN Append(hl[last].opts[b], opt) ELSE hl[last].opts[h]
  BY <1>2, <1>3, <1>4
<1>6. new = [hl EXCEPT ![last] = hd]
  BY DEF Added
<1> HIDE DEF os
<1>7. hd \in Header /\ hd.name = hl[last].name /\ hd.opts = os
  BY <1>2, <1>5 DEF Header
<1> HIDE DEF hd, new
<1>8. /\ new \in Seq(Header) /\ Len(new) = last
      /\ \A i \in 1 .. last : new[i] = IF i = last THEN hd ELSE hl[i]
  BY <1>1, <1>6, <1>7, ExceptSeq
<1>9. \A i \in 1 .. last : new[i].name = hl[i].name
  BY <1>7, <1>8
<1>10. ASSUME NEW i \in 1 .. last, NEW n \in Names
       PROVE  Chain(new, i, n) = IF i = last /\ hash[n] = b
                                   THEN Append(Chain(hl, i, n), opt) ELSE Chain(hl, i, n)
  <2>1. hash[n] \in 1 .. Buckets
    BY OptionsAssumption
  <2>2. CASE i = last
    <3>1. Chain(new, i, n) = os[hash[n]]
      BY <1>7, <1>8, <2>2 DEF Chain
    <3> QED
      BY <1>5, <2>1, <2>2, <3>1 DEF Chain
  <2>3. CASE i # last
    BY <1>8, <2>3 DEF Chain
  <2> QED
    BY <2>2, <2>3
<1> QED
  BY <1>8, <1>9, <1>10 DEF new

LEMMA OptionChanges ==
  ASSUME NEW hl \in Seq(Header), hl # << >>, NEW opt \in OptLine,
         NEW header \in Sections, NEW n \in Names
  PROVE  LookupIn(Added(hl, opt), header, n) =
           IF LookupIn(hl, header, n) # NONE THEN LookupIn(hl, header, n)
           ELSE IF hl[Len(hl)].name = header /\ opt.name = n THEN opt.val ELSE NONE
<1> DEFINE new == Added(hl, opt)
           last == Len(hl)
           F == Found(hl, header, n)
           G == Found(new, header, n)
<1> SUFFICES LookupIn(new, header, n) =
               IF LookupIn(hl, header, n) # NONE THEN LookupIn(hl, header, n)
               ELSE IF hl[last].name = header /\ opt.name = n THEN opt.val ELSE NONE
  OBVIOUS
<1>1. last \in 1 .. last /\ last \in Nat
  BY EmptySeq
<1>2. /\ new \in Seq(Header) /\ Len(new) = last
      /\ \A i \in 1 .. last : new[i].name = hl[i].name
      /\ \A i \in 1 .. last :
           Chain(new, i, n) = IF i = last /\ hash[n] = hash[opt.name]
                                THEN Append(Chain(hl, i, n), opt) ELSE Chain(hl, i, n)
  BY AddedIs
<1> HIDE DEF new
<1>3. \A i \in 1 .. last : Chain(hl, i, n) \in Seq(OptLine)
  BY ChainType
<1>4. F \in SUBSET (1 .. last) /\ G \in SUBSET (1 .. last) /\ F \in SUBSET Nat /\ G \in SUBSET Nat
  BY <1>2 DEF Found
<1>5. ASSUME NEW i \in 1 .. last, i \in F
      PROVE  i \in G /\ FirstOf(Chain(new, i, n), n) = FirstOf(Chain(hl, i, n), n)
  <2>1. Named(Chain(hl, i, n), n) # {} /\ hl[i].name = header
    BY <1>5 DEF Found
  <2>2. CASE i = last /\ hash[n] = hash[opt.name]
    <3>1. Chain(new, i, n) = Append(Chain(hl, i, n), opt)
      BY <1>2, <2>2
    <3>2. /\ Named(Chain(new, i, n), n) # {}
          /\ FirstOf(Chain(new, i, n), n) = FirstOf(Chain(hl, i, n), n)
      BY <1>3, <2>1, <3>1, FirstOfAppend
    <3> QED
      BY <1>2, <2>1, <3>2 DEF Found
  <2>3. CASE ~ (i = last /\ hash[n] = hash[opt.name])
    <3>1. Chain(new, i, n) = Chain(hl, i, n)
      BY <1>2, <2>3
    <3> QED
      BY <1>2, <2>1, <3>1 DEF Found
  <2> QED
    BY <2>2, <2>3
<1>6. ASSUME NEW i \in G, i \notin F
      PROVE  /\ i = last /\ hl[last].name = header /\ opt.name = n
             /\ FirstOf(Chain(new, last, n), n) = opt.val
  <2>1. i \in 1 .. last /\ hl[i].name = header /\ Named(Chain(new, i, n), n) # {}
    BY <1>2 DEF Found
  <2>2. Named(Chain(hl, i, n), n) = {}
    BY <1>6, <2>1 DEF Found
  <2>3. i = last /\ hash[n] = hash[opt.name]
    BY <1>2, <2>1, <2>2
  <2>4. Chain(new, i, n) = Append(Chain(hl, i, n), opt) /\ Chain(hl, i, n) \in Seq(OptLine)
    BY <1>2, <1>3, <2>1, <2>3
  <2> QED
    BY <2>1, <2>2, <2>3, <2>4, FirstOfAppend
<1>7. ASSUME hl[last].name = header, opt.name = n PROVE last \in G
  <2>1. Chain(new, last, n) = Append(Chain(hl, last, n), opt)
    BY <1>1, <1>2, <1>7
  <2>2. Chain(hl, last, n) \in Seq(OptLine)
    BY <1>1, <1>3
  <2>3. Named(Chain(new, last, n), n) # {}
    BY <1>7, <2>1, <2>2, FirstOfAppend, SMTT(40)
  <2> QED
    BY <1>1, <1>2, <1>7, <2>3 DEF Found
<1>8. LookupIn(hl, header, n) = NONE <=> F = {}
  BY LookupFinds
<1>9. /\ LookupIn(hl, header, n) = IF F = {} THEN NONE ELSE FirstOf(Chain(hl, Min(F), n), n)
      /\ LookupIn(new, header, n) = IF G = {} THEN NONE ELSE FirstOf(Chain(new, Min(G), n), n)
  BY LookupByChains
<1> HIDE DEF F, G
<1>10. CASE F # {}
  <2>1. Min(F) \in F /\ \A y \in F : Min(F) <= y
    BY <1>4, <1>10, MinIsLeast
  <2>2. Min(F) \in 1 .. last
    BY <1>4, <2>1
  <2>3. Min(F) \in G /\ FirstOf(Chain(new, Min(F), n), n) = FirstOf(Chain(hl, Min(F), n), n)
    BY <1>5, <2>1, <2>2
  <2>4. \A y \in G : Min(F) <= y
    BY <1>1, <1>6, <2>1, <2>2
  <2>5. Min(G) = Min(F)
    BY <1>4, <2>3, <2>4, MinIs
  <2> QED
    BY <1>8, <1>9, <1>10, <2>3, <2>5
<1>11. CASE F = {} /\ hl[last].name = header /\ opt.name = n
  <2>1. last \in G /\ \A y \in G : y = last
    BY <1>6, <1>7, <1>11
  <2>2. Min(G) = last
    <3>1. \A y \in G : last <= y
      BY <1>1, <2>1
    <3> QED
      BY <1>4, <2>1, <3>1, MinIs
  <2>3. FirstOf(Chain(new, last, n), n) = opt.val
    BY <1>6, <1>11, <2>1
  <2> QED
    BY <1>8, <1>9, <1>11, <2>1, <2>2, <2>3
<1>12. CASE F = {} /\ ~ (hl[last].name = header /\ opt.name = n)
  <2>1. G = {}
    BY <1>6, <1>12
  <2> QED
    BY <1>8, <1>9, <1>12, <2>1
<1> QED
  BY <1>10, <1>11, <1>12

-----------------------------------------------------------------------------
(* The file: the section of a line, and the first value of a name *)

LEMMA LinesAre ==
  ASSUME NEW lines \in Seq(ConfigLine), NEW i \in 1 .. Len(lines)
  PROVE  /\ lines[i].is \in {"header", "opt", "junk"}
         /\ lines[i].is = "header" => lines[i].name \in Sections
         /\ lines[i].is = "opt" => lines[i] \in OptLine
<1>1. lines[i] \in ConfigLine
  BY ElementOfSeq
<1> QED
  BY <1>1 DEF ConfigLine, OptLine

Headers(lines, k) == {i \in 1 .. k : lines[i].is = "header"}

LEMMA SectionStep ==
  ASSUME NEW lines \in Seq(ConfigLine), NEW k \in Nat, k < Len(lines)
  PROVE  SectionOf(lines, k + 1) =
           IF lines[k + 1].is = "header" THEN lines[k + 1].name ELSE SectionOf(lines, k)
<1> DEFINE H == Headers(lines, k)
           J == Headers(lines, k + 1)
<1>1. /\ SectionOf(lines, k) = IF H = {} THEN "global" ELSE lines[Max(H)].name
      /\ SectionOf(lines, k + 1) = IF J = {} THEN "global" ELSE lines[Max(J)].name
  BY DEF SectionOf, Headers
<1>2. CASE lines[k + 1].is = "header"
  <2>1. k + 1 \in J /\ J \in SUBSET (0 .. k + 1) /\ \A y \in J : k + 1 >= y
    BY <1>2 DEF Headers
  <2>2. k + 1 \in Nat
    OBVIOUS
  <2> HIDE DEF J
  <2>3. Max(J) = k + 1
    BY <2>1, <2>2, MaxIs
  <2> QED
    BY <1>1, <1>2, <2>1, <2>3
<1>3. CASE lines[k + 1].is # "header"
  <2>1. J = H
    BY <1>3 DEF Headers
  <2> QED
    BY <1>1, <1>3, <2>1
<1> QED
  BY <1>2, <1>3

LEMMA NoSection ==
  ASSUME NEW lines
  PROVE  SectionOf(lines, 0) = "global"
BY DEF SectionOf

LEMMA NothingYet ==
  ASSUME NEW lines, NEW header, NEW n
  PROVE  FirstUpTo(lines, 0, header, n) = NONE
BY DEF FirstUpTo, Hits

LEMMA FirstStep ==
  ASSUME NEW lines \in Seq(ConfigLine), NEW k \in Nat, k < Len(lines),
         NEW header, NEW n
  PROVE  FirstUpTo(lines, k + 1, header, n) =
           IF FirstUpTo(lines, k, header, n) # NONE THEN FirstUpTo(lines, k, header, n)
           ELSE IF /\ lines[k + 1].is = "opt" /\ lines[k + 1].name = n
                   /\ SectionOf(lines, k + 1) = header
             THEN lines[k + 1].val ELSE NONE
<1> DEFINE H == Hits(lines, k, header, n)
           J == Hits(lines, k + 1, header, n)
           is == /\ lines[k + 1].is = "opt" /\ lines[k + 1].name = n
                 /\ SectionOf(lines, k + 1) = header
<1>0. Len(lines) \in Nat
  BY LenProperties
<1>1. \A i : i \in J <=> i \in H \/ (i = k + 1 /\ is)
  <2>1. \A i : i \in 1 .. k + 1 <=> i \in 1 .. k \/ i = k + 1
    OBVIOUS
  <2> QED
    BY <2>1 DEF Hits
<1>2. H \in SUBSET (1 .. k) /\ H \in SUBSET Nat /\ J \in SUBSET Nat
  BY DEF Hits
<1>3. /\ FirstUpTo(lines, k, header, n) = IF H = {} THEN NONE ELSE lines[Min(H)].val
      /\ FirstUpTo(lines, k + 1, header, n) = IF J = {} THEN NONE ELSE lines[Min(J)].val
  BY DEF FirstUpTo
<1>4. \A i \in H : i \in 1 .. Len(lines) /\ lines[i].is = "opt"
  BY <1>0 DEF Hits
<1>5. SUFFICES FirstUpTo(lines, k + 1, header, n) =
                 IF FirstUpTo(lines, k, header, n) # NONE THEN FirstUpTo(lines, k, header, n)
                 ELSE IF is THEN lines[k + 1].val ELSE NONE
  OBVIOUS
<1> HIDE DEF H, J, is
<1>6. CASE H # {}
  <2>1. Min(H) \in H /\ \A y \in H : Min(H) <= y
    BY <1>2, <1>6, MinIsLeast
  <2>2. Min(H) \in 1 .. Len(lines) /\ lines[Min(H)].is = "opt" /\ Min(H) \in 1 .. k
    BY <1>2, <1>4, <2>1
  <2>3. lines[Min(H)].val # NONE
    BY <2>2, LinesAre DEF OptLine
  <2>4. Min(H) \in J /\ \A y \in J : Min(H) <= y
    BY <1>1, <2>1, <2>2
  <2>5. Min(J) = Min(H)
    BY <1>2, <2>4, MinIs
  <2> QED
    BY <1>3, <1>6, <2>3, <2>4, <2>5
<1>7. CASE H = {} /\ is
  <2>1. k + 1 \in J /\ \A y \in J : k + 1 <= y
    BY <1>1, <1>7
  <2>2. Min(J) = k + 1
    BY <1>2, <2>1, MinIs
  <2> QED
    BY <1>3, <1>7, <2>1, <2>2
<1>8. CASE H = {} /\ ~ is
  BY <1>1, <1>3, <1>8
<1> QED
  BY <1>6, <1>7, <1>8

(* Nothing is parsed of nothing.                                           *)
LEMMA ParsedNothing ==
  ASSUME NEW lines
  PROVE  << >> \in Seq(Header) /\ Parsed(<< >>, lines, 0)
<1>1. << >> \in Seq(Header) /\ Len(<< >>) = 0
  BY EmptySeq
<1>2. ASSUME NEW header \in Sections, NEW n \in Names
      PROVE  LookupIn(<< >>, header, n) = NONE
  <2>1. Found(<< >>, header, n) = {}
    BY <1>1 DEF Found
  <2> QED
    BY <2>1, LookupByChains
<1> QED
  BY <1>1, <1>2, NothingYet DEF Parsed

(* The parser follows the file, line by line.                              *)
LEMMA ParsedStep ==
  ASSUME NEW hl \in Seq(Header), NEW lines \in Seq(ConfigLine), NEW k \in Nat,
         k < Len(lines), lines[k + 1].is # "junk", Parsed(hl, lines, k)
  PROVE  /\ ParseLine(hl, lines[k + 1]) \in Seq(Header)
         /\ Parsed(ParseLine(hl, lines[k + 1]), lines, k + 1)
<1> DEFINE next == lines[k + 1]
           new == ParseLine(hl, next)
<1>0. Len(lines) \in Nat /\ k + 1 \in 1 .. Len(lines) /\ k + 1 \in Nat /\ k + 1 # 0
  BY LenProperties
<1>1. /\ next.is \in {"header", "opt"}
      /\ next.is = "header" => next.name \in Sections
      /\ next.is = "opt" => next \in OptLine
  BY <1>0, LinesAre
<1>2. SectionOf(lines, k + 1) = IF next.is = "header" THEN next.name ELSE SectionOf(lines, k)
  BY <1>0, SectionStep
<1>3. \A header, n : FirstUpTo(lines, k + 1, header, n) =
           IF FirstUpTo(lines, k, header, n) # NONE THEN FirstUpTo(lines, k, header, n)
           ELSE IF /\ next.is = "opt" /\ next.name = n
                   /\ SectionOf(lines, k + 1) = header
             THEN next.val ELSE NONE
  BY <1>0, FirstStep
<1>4. \A header \in Sections, n \in Names :
        LookupIn(hl, header, n) = FirstUpTo(lines, k, header, n)
  BY DEF Parsed
<1> HIDE DEF next
<1>5. CASE next.is = "header"
  <2>1. new = new_header(hl, next.name)
    BY <1>5 DEF ParseLine
  <2> HIDE DEF new
  <2>2. /\ new \in Seq(Header) /\ new # << >> /\ new[Len(new)].name = next.name
        /\ \A header \in Sections, n \in Names :
             LookupIn(new, header, n) = LookupIn(hl, header, n)
    BY <1>1, <1>5, <2>1, HeaderChanges
  <2>3. \A header \in Sections, n \in Names :
          LookupIn(new, header, n) = FirstUpTo(lines, k + 1, header, n)
    BY <1>3, <1>4, <1>5, <2>2
  <2>4. Parsed(new, lines, k + 1)
    BY <1>0, <1>2, <1>5, <2>2, <2>3 DEF Parsed
  <2> QED
    BY <2>2, <2>4 DEF new, next
<1>6. CASE next.is = "opt"
  <2> DEFINE hs == IF hl = << >> THEN new_header(hl, "global") ELSE hl
  <2>1. new = Added(hs, next)
    BY <1>6 DEF ParseLine, add_opt, Added
  <2>2. /\ hs \in Seq(Header) /\ hs # << >> /\ hs[Len(hs)].name = SectionOf(lines, k)
        /\ \A header \in Sections, n \in Names :
             LookupIn(hs, header, n) = LookupIn(hl, header, n)
    <3>1. CASE hl = << >>
      <4>1. k = 0 /\ SectionOf(lines, k) = "global" /\ hs = new_header(hl, "global")
        BY <3>1, NoSection DEF Parsed
      <4> HIDE DEF hs
      <4>2. /\ hs \in Seq(Header) /\ hs # << >> /\ hs[Len(hs)].name = "global"
            /\ \A header \in Sections, n \in Names :
                 LookupIn(hs, header, n) = LookupIn(hl, header, n)
        BY <4>1, OptionsAssumption, HeaderChanges
      <4> QED
        BY <4>1, <4>2
    <3>2. CASE hl # << >>
      BY <3>2 DEF Parsed
    <3> QED
      BY <3>1, <3>2
  <2> HIDE DEF new, hs
  <2>3. next \in OptLine
    BY <1>1, <1>6
  <2>4. /\ new \in Seq(Header) /\ Len(new) = Len(hs)
        /\ \A i \in 1 .. Len(hs) : new[i].name = hs[i].name
    BY <2>1, <2>2, <2>3, AddedIs
  <2>5. Len(hs) \in 1 .. Len(hs)
    BY <2>2, EmptySeq
  <2>6. new # << >> /\ new[Len(new)].name = SectionOf(lines, k + 1)
    <3>1. Len(new) # 0
      BY <2>4, <2>5
    <3>2. new # << >>
      BY <3>1, EmptySeq
    <3> QED
      BY <1>2, <1>6, <2>2, <2>4, <2>5, <3>2
  <2>7. ASSUME NEW header \in Sections, NEW n \in Names
        PROVE  LookupIn(new, header, n) = FirstUpTo(lines, k + 1, header, n)
    <3>1. LookupIn(new, header, n) =
            IF LookupIn(hs, header, n) # NONE THEN LookupIn(hs, header, n)
            ELSE IF hs[Len(hs)].name = header /\ next.name = n THEN next.val ELSE NONE
      BY <2>1, <2>2, <2>3, OptionChanges
    <3>2. hs[Len(hs)].name = SectionOf(lines, k + 1)
      BY <1>2, <1>6, <2>2
    <3>3. LookupIn(hs, header, n) = FirstUpTo(lines, k, header, n)
      BY <1>4, <2>2
    <3> QED
      BY <1>3, <1>6, <3>1, <3>2, <3>3
  <2>8. Parsed(new, lines, k + 1)
    BY <1>0, <2>6, <2>7 DEF Parsed
  <2> QED
    BY <2>4, <2>8 DEF new, next
<1> QED
  BY <1>1, <1>5, <1>6

(* At the end of the file the lookup is that of the whole file.            *)
LEMMA ParsedAll ==
  ASSUME NEW hl, NEW lines, Parsed(hl, lines, Len(lines)),
         NEW header \in Sections, NEW n \in Names
  PROVE  /\ LookupIn(hl, header, n) = FirstIn(lines, header, n)
         /\ config_string(hl, header, n) = FirstInFile(lines, header, n)
<1>1. \A h : FirstIn(lines, h, n) = FirstUpTo(lines, Len(lines), h, n)
  BY DEF FirstIn, FirstUpTo, Hits
<1>2. \A h \in Sections : LookupIn(hl, h, n) = FirstIn(lines, h, n)
  BY <1>1 DEF Parsed
<1>3. /\ LookupIn(hl, header, n) = FirstIn(lines, header, n)
      /\ LookupIn(hl, "global", n) = FirstIn(lines, "global", n)
  BY <1>2, OptionsAssumption
<1>4. CASE FirstIn(lines, header, n) = NONE
  BY <1>3, <1>4 DEF config_string, FirstInFile
<1>5. CASE FirstIn(lines, header, n) # NONE
  BY <1>3, <1>5 DEF config_string, FirstInFile
<1> QED
  BY <1>4, <1>5

-----------------------------------------------------------------------------
(* The options: what was said about syslog *)

Whats == {"nothing", "syslog", "no-syslog"}

LEMMA ModifierType ==
  ASSUME NEW opts \in OptionType, NEW opt
  PROVE  modifier(opts, opt) \in OptionType
<1> DEFINE new == modifier(opts, opt)
<1>1. CASE opt = "logfile"
  BY <1>1 DEF modifier, OptionType
<1>2. CASE opt = "syslog"
  BY <1>2 DEF modifier, OptionType
<1>3. CASE opt = "syslog-error"
  BY <1>3 DEF modifier, OptionType
<1>4. CASE opt = "no-syslog"
  BY <1>4 DEF modifier, OptionType
<1>5. CASE opt = "daemon"
  <2> DEFINE s == IF Forced(opts) THEN opts.syslog_opt ELSE {"REMARK", "ERROR"}
  <2>1. s \in SUBSET (SYSLOG_ALL \cup {"FORCE"})
    BY DEF OptionType, SYSLOG_ALL
  <2>2. new = [opts EXCEPT !.daemon_mode = TRUE, !.syslog_opt = s]
    BY <1>5 DEF modifier, OptionType
  <2> HIDE DEF s
  <2> QED
    BY <2>1, <2>2 DEF OptionType
<1>6. CASE opt = "foreground"
  <2> DEFINE s == IF Forced(opts) THEN opts.syslog_opt ELSE {"FORCE"}
  <2>1. s \in SUBSET (SYSLOG_ALL \cup {"FORCE"})
    BY DEF OptionType
  <2>2. new = [opts EXCEPT !.foreground = TRUE, !.syslog_opt = s]
    BY <1>6 DEF modifier, OptionType
  <2> HIDE DEF s
  <2> QED
    BY <2>1, <2>2 DEF OptionType
<1>7. CASE opt \notin {"logfile", "syslog", "syslog-error", "no-syslog", "daemon", "foreground"}
  BY <1>7 DEF modifier
<1> QED
  BY <1>1, <1>2, <1>3, <1>4, <1>5, <1>6, <1>7

(* An option about syslog decides it.                                      *)
LEMMA ModifierDecides ==
  ASSUME NEW opts \in OptionType, NEW opt \in AboutSyslog
  PROVE  Follows(modifier(opts, opt), IF opt = "no-syslog" THEN "no-syslog" ELSE "syslog")
<1>1. CASE opt = "syslog"
  <2>1. modifier(opts, opt).syslog_opt = SYSLOG_ALL \cup {"FORCE"}
    BY <1>1 DEF modifier, OptionType
  <2> QED
    BY <1>1, <2>1 DEF Follows
<1>2. CASE opt = "syslog-error"
  <2>1. modifier(opts, opt).syslog_opt = SYSLOG_ALL \cup {"FORCE"}
    BY <1>2 DEF modifier, OptionType
  <2> QED
    BY <1>2, <2>1 DEF Follows
<1>3. CASE opt = "no-syslog"
  <2>1. modifier(opts, opt).syslog_opt = {"FORCE"}
    BY <1>3 DEF modifier, OptionType
  <2> QED
    BY <1>3, <2>1 DEF Follows
<1> QED
  BY <1>1, <1>2, <1>3 DEF AboutSyslog

(* What Follows is about.                                                  *)
LEMMA FollowsDepends ==
  ASSUME NEW opts, NEW new, NEW what, Follows(opts, what),
         new.syslog_opt = opts.syslog_opt, new.foreground = opts.foreground,
         new.daemon_mode = opts.daemon_mode
  PROVE  Follows(new, what)
BY DEF Follows, Forced

(* Another option does not change what was said.                           *)
LEMMA ModifierKeeps ==
  ASSUME NEW opts \in OptionType, NEW opt, opt \notin AboutSyslog,
         NEW what \in Whats, Follows(opts, what)
  PROVE  Follows(modifier(opts, opt), what)
<1> DEFINE new == modifier(opts, opt)
<1>1. what # "nothing" => Forced(opts)
  BY DEF Follows, Forced, Whats
<1>2. CASE opt = "logfile"
  <2>1. /\ new.syslog_opt = opts.syslog_opt /\ new.foreground = opts.foreground
        /\ new.daemon_mode = opts.daemon_mode
    BY <1>2 DEF modifier, OptionType
  <2> QED
    BY <2>1, FollowsDepends
<1>3. CASE opt = "daemon"
  <2>1. /\ new.foreground = opts.foreground
        /\ Forced(opts) => new.syslog_opt = opts.syslog_opt
        /\ ~ Forced(opts) => new.syslog_opt = {"REMARK", "ERROR"}
    BY <1>3 DEF modifier, OptionType
  <2> HIDE DEF new
  <2>2. Follows(new, what)
    <3>1. CASE Forced(opts)
      BY <2>1, <3>1 DEF Follows, Forced
    <3>2. CASE ~ Forced(opts)
      BY <1>1, <2>1, <3>2 DEF Follows, Forced
    <3> QED
      BY <3>1, <3>2
  <2> QED
    BY <2>2 DEF new
<1>4. CASE opt = "foreground"
  <2>1. /\ new.foreground = TRUE
        /\ Forced(opts) => new.syslog_opt = opts.syslog_opt
        /\ ~ Forced(opts) => new.syslog_opt = {"FORCE"}
    BY <1>4 DEF modifier, OptionType
  <2> HIDE DEF new
  <2>2. Follows(new, what)
    <3>1. CASE Forced(opts)
      BY <2>1, <3>1 DEF Follows, Forced
    <3>2. CASE ~ Forced(opts)
      BY <1>1, <2>1, <3>2 DEF Follows, Forced
    <3> QED
      BY <3>1, <3>2
  <2> QED
    BY <2>2 DEF new
<1>5. CASE opt \notin {"logfile", "syslog", "syslog-error", "no-syslog", "daemon", "foreground"}
  BY <1>5 DEF modifier
<1> QED
  BY <1>2, <1>3, <1>4, <1>5 DEF AboutSyslog

(* The table of the options.                                               *)
LEMMA TableIs ==
  /\ Len(OptionTable) = 7
  /\ OptionTable[1] = "logfile" /\ OptionTable[2] = "syslog"
  /\ OptionTable[3] = "syslog-error" /\ OptionTable[4] = "no-syslog"
  /\ OptionTable[5] = "daemon" /\ OptionTable[6] = "ascii" /\ OptionTable[7] = "foreground"
BY DEF OptionTable

LEMMA SaidTypes ==
  ASSUME NEW k
  PROVE  SaidByFile(k) \in Whats /\ SaidByUser(k) \in Whats
BY DEF SaidByFile, SaidByUser, Whats

(* What an entry of the table adds.                                        *)
LEMMA SaidByFileStep ==
  ASSUME NEW k \in 0 .. 6
  PROVE  LET opt == OptionTable[k + 1]
         IN  SaidByFile(k + 1) =
               IF opt \in AboutSyslog /\ Configured(opt)
                 THEN IF opt = "no-syslog" THEN "no-syslog" ELSE "syslog"
                 ELSE SaidByFile(k)
<1>1. CASE k = 0
  BY <1>1, TableIs DEF SaidByFile, AboutSyslog
<1>2. CASE k = 1
  BY <1>2, TableIs DEF SaidByFile, AboutSyslog
<1>3. CASE k = 2
  BY <1>3, TableIs DEF SaidByFile, AboutSyslog
<1>4. CASE k = 3
  BY <1>4, TableIs DEF SaidByFile, AboutSyslog
<1>5. CASE k = 4
  BY <1>5, TableIs DEF SaidByFile, AboutSyslog
<1>6. CASE k = 5
  BY <1>6, TableIs DEF SaidByFile, AboutSyslog
<1>7. CASE k = 6
  BY <1>7, TableIs DEF SaidByFile, AboutSyslog
<1> QED
  BY <1>1, <1>2, <1>3, <1>4, <1>5, <1>6, <1>7

(* What an argument adds.                                                  *)
LEMMA SaidByUserStep ==
  ASSUME NEW k \in Nat
  PROVE  SaidByUser(k + 1) =
           IF args[k + 1] \in AboutSyslog
             THEN IF args[k + 1] = "no-syslog" THEN "no-syslog" ELSE "syslog"
             ELSE SaidByUser(k)
<1>1. CASE args[k + 1] \in AboutSyslog
  <2>1. /\ k + 1 \in Nat /\ k + 1 \in About(k + 1)
        /\ About(k + 1) \in SUBSET (0 .. k + 1)
        /\ \A y \in About(k + 1) : k + 1 >= y
    BY <1>1 DEF About
  <2>2. Max(About(k + 1)) = k + 1
    BY <2>1, MaxIs
  <2>3. About(k + 1) # {}
    BY <2>1
  <2> QED
    BY <1>1, <2>2, <2>3 DEF SaidByUser
<1>2. CASE args[k + 1] \notin AboutSyslog
  <2>1. About(k + 1) = About(k)
    BY <1>2 DEF About
  <2> QED
    BY <1>2, <2>1 DEF SaidByUser
<1> QED
  BY <1>1, <1>2

LEMMA SaidAtStart == SaidByUser(0) = SaidByFile(7)
BY DEF SaidByUser, About

LEMMA SaidAtEnd == Asked = SaidByUser(Len(args))
<1>1. SaidByFile(7) = IF Configured("no-syslog") THEN "no-syslog"
                      ELSE IF Configured("syslog") \/ Configured("syslog-error") THEN "syslog"
                      ELSE "nothing"
  BY DEF SaidByFile
<1>2. Asked = IF About(Len(args)) # {}
                THEN IF args[Max(About(Len(args)))] = "no-syslog" THEN "no-syslog" ELSE "syslog"
              ELSE IF Configured("no-syslog") THEN "no-syslog"
              ELSE IF Configured("syslog") \/ Configured("syslog-error") THEN "syslog"
              ELSE "nothing"
  BY DEF Asked, About, AboutSyslog, Configured
<1> QED
  BY <1>1, <1>2 DEF SaidByUser

-----------------------------------------------------------------------------
(* The initial states *)

LEMMA InitIInv == Init => IInv
<1> SUFFICES ASSUME Init PROVE IInv
  OBVIOUS
<1> USE DEF Init
<1>1. PICK s \in Setups : cfg = s.cfg /\ args = s.args
  OBVIOUS
<1>2. s \in [cfg: Seq(ConfigLine), args: Seq(STRING)]
  BY LogOutputAssumption
<1>3. cfg \in Seq(ConfigLine) /\ args \in Seq(STRING)
  BY <1>1, <1>2
<1>4. hlist \in Seq(Header) /\ Parsed(hlist, cfg, 0)
  BY ParsedNothing
<1>5. o \in OptionType
  BY DEF DefaultOptions, OptionType, SYSLOG_ALL
<1>6. SetupType
  BY <1>3, <1>4, <1>5 DEF SetupType
<1>7. << >> \in Seq(Nat) /\ << >> \in Seq(Nat \ {NL}) /\ Len(<< >>) = 0
  BY EmptySeq
<1>8. files \in Seq(Seq(Nat)) /\ Len(files) = 1 /\ files[1] = << >>
  BY <1>7
<1>9. OutputType
  <2>1. << >> \in Seq(Given)
    BY EmptySeq
  <2> QED
    BY <1>7, <1>8, <2>1, LogOutputAssumption DEF OutputType
<1>10. Len(cfg) \in Nat
  BY <1>3, LenProperties
<1>11. ParseInv
  BY <1>4, <1>10 DEF ParseInv
<1>12. OptionInv
  BY DEF OptionInv, Follows, Forced, DefaultOptions, Started
<1>13. HeardInv
  BY DEF HeardInv, EveryMessageHeard
<1>14. LinesInv
  <2>1. << >> \o << >> = << >>
    BY <1>7, ConcatEmptySeq
  <2>2. Out = << >> /\ given = << >> /\ syslog = << >> /\ Len(given) = 0
    BY <1>7, <2>1 DEF Out
  <2> QED
    BY <2>2 DEF LinesInv, LinesKept, Marks
<1>15. FileInv
  <2>1. FlattenSeq(files) = << >>
    <3>0. files \in Seq(Seq(Nat)) /\ Len(files) > 0
      BY <1>8
    <3> HIDE DEF Init
    <3>1. PICK f : Sums(f, files, Len(files)) /\ FlattenSeq(files) = f[Len(files)]
      BY <3>0, FlattenIsSum
    <3>2. f[1] = files[1]
      BY <1>8, <3>1 DEF Sums
    <3> QED
      BY <1>8, <3>1, <3>2
  <2>2. << >> \o << >> = << >>
    BY <1>7, ConcatEmptySeq
  <2>3. \A f \in 1 .. Len(files) : files[f] = << >>
    BY <1>8
  <2> QED
    BY <1>7, <1>8, <2>1, <2>2, <2>3 DEF FileInv
<1> QED
  BY <1>6, <1>9, <1>11, <1>12, <1>13, <1>14, <1>15 DEF IInv

-----------------------------------------------------------------------------
(* The start *)

Early == pc \in {"config", "options", "args", "finish"}

(* Until the options are known there is no output.                         *)
LEMMA StartingKeeps ==
  ASSUME IInv, Early, Starting, Early'
  PROVE  /\ OutputType' /\ HeardInv' /\ LinesInv' /\ FileInv'
         /\ tty' \in BOOLEAN /\ usr1' \in BOOLEAN /\ events' \subseteq Events
         /\ cfg' \in Seq(ConfigLine) /\ args' \in Seq(STRING)
         /\ events' = {} /\ output_fh' = 0 /\ unheard' = {}
<1> USE DEF Starting, said
<1>1. ~ Started /\ ~ Started'
  BY DEF Early, Started
<1>2. events = {} /\ output_fh = 0 /\ unheard = {}
  BY <1>1 DEF IInv, OptionInv
<1>3. OutputType'
  BY DEF IInv, OutputType
<1>4. HeardInv'
  BY <1>2 DEF Early, HeardInv, EveryMessageHeard
<1>5. LinesInv'
  BY SameLines DEF IInv
<1>6. FileInv'
  BY <1>1, <1>2 DEF IInv, FileInv
<1> QED
  BY <1>2, <1>3, <1>4, <1>5, <1>6 DEF IInv, SetupType

LEMMA ReadLineKeeps ==
  ASSUME IInv, ReadLine
  PROVE  IInv'
<1>1. /\ pc = "config" /\ pc' = "config" /\ ~ o.dead /\ pos < Len(cfg) /\ pos' = pos + 1
      /\ Starting /\ cfg' = cfg /\ args' = args /\ asked' = asked
  BY DEF ReadLine, Starting
<1>2. Early /\ Early'
  BY <1>1 DEF Early
<1>3. /\ OutputType' /\ HeardInv' /\ LinesInv' /\ FileInv'
      /\ tty' \in BOOLEAN /\ usr1' \in BOOLEAN /\ events' \subseteq Events
      /\ cfg' \in Seq(ConfigLine) /\ args' \in Seq(STRING)
      /\ events' = {} /\ output_fh' = 0 /\ unheard' = {}
  BY <1>1, <1>2, StartingKeeps
<1>4. /\ hlist \in Seq(Header) /\ cfg \in Seq(ConfigLine) /\ pos \in Nat /\ o \in OptionType
      /\ asked \in Whats
      /\ Parsed(hlist, cfg, pos) /\ Follows(o, "nothing")
  BY <1>1 DEF IInv, SetupType, ParseInv, OptionInv, Whats
<1>5. Len(cfg) \in Nat
  BY <1>4, LenProperties
<1>6. /\ hlist' \in Seq(Header) /\ o' \in OptionType /\ Follows(o', "nothing")
      /\ o'.dead \/ Parsed(hlist', cfg, pos + 1)
  <2>1. CASE cfg[pos + 1].is = "junk"
    <3>1. o' = [o EXCEPT !.dead = TRUE] /\ hlist' = hlist
      BY <2>1 DEF ReadLine
    <3>2. /\ o' \in OptionType /\ o'.dead
          /\ o'.syslog_opt = o.syslog_opt /\ o'.foreground = o.foreground
          /\ o'.daemon_mode = o.daemon_mode
      BY <1>4, <3>1 DEF OptionType
    <3> QED
      BY <1>4, <3>1, <3>2, FollowsDepends
  <2>2. CASE cfg[pos + 1].is # "junk"
    <3>1. hlist' = ParseLine(hlist, cfg[pos + 1]) /\ o' = o
      BY <2>2 DEF ReadLine
    <3> QED
      BY <1>1, <1>4, <2>2, <3>1, ParsedStep
  <2> QED
    BY <2>1, <2>2
<1>7. SetupType'
  BY <1>1, <1>3, <1>4, <1>6 DEF SetupType, Whats
<1>8. ParseInv'
  BY <1>1, <1>4, <1>5, <1>6 DEF ParseInv
<1>9. OptionInv'
  BY <1>1, <1>3, <1>6 DEF OptionInv, Started
<1> QED
  BY <1>3, <1>7, <1>8, <1>9 DEF IInv

LEMMA ConfigDoneKeeps ==
  ASSUME IInv, ConfigDone
  PROVE  IInv'
<1>1. /\ pc = "config" /\ pc' = "options" /\ ~ o.dead /\ pos = Len(cfg) /\ pos' = 0
      /\ Starting /\ cfg' = cfg /\ args' = args /\ asked' = asked /\ hlist' = hlist /\ o' = o
  BY DEF ConfigDone, Starting
<1>2. Early /\ Early'
  BY <1>1 DEF Early
<1>3. /\ OutputType' /\ HeardInv' /\ LinesInv' /\ FileInv'
      /\ tty' \in BOOLEAN /\ usr1' \in BOOLEAN /\ events' \subseteq Events
      /\ cfg' \in Seq(ConfigLine) /\ args' \in Seq(STRING)
      /\ events' = {} /\ output_fh' = 0 /\ unheard' = {}
  BY <1>1, <1>2, StartingKeeps
<1>4. Parsed(hlist, cfg, Len(cfg)) /\ Follows(o, "nothing")
  BY <1>1 DEF IInv, ParseInv, OptionInv
<1>5. SetupType'
  BY <1>1, <1>3 DEF IInv, SetupType
<1>6. ParseInv'
  BY <1>1, <1>4, TableIs DEF ParseInv
<1>7. SaidByFile(0)' = "nothing"
  BY DEF SaidByFile
<1>8. OptionInv'
  <2>1. SaidByFile(pos)' = "nothing"
    BY <1>1 DEF SaidByFile
  <2>2. Follows(o, "nothing")'
    BY <1>1, <1>4 DEF Follows, Forced
  <2> QED
    BY <1>1, <1>3, <2>1, <2>2 DEF OptionInv, Started
<1> QED
  BY <1>3, <1>5, <1>6, <1>8 DEF IInv

LEMMA ReadOptionKeeps ==
  ASSUME IInv, ReadOption
  PROVE  IInv'
<1> DEFINE opt == OptionTable[pos + 1]
           val == FirstIn(cfg, "global", opt)
<1>1. /\ pc = "options" /\ pc' = "options" /\ ~ o.dead /\ pos < 7 /\ pos' = pos + 1
      /\ Starting /\ cfg' = cfg /\ args' = args /\ asked' = asked /\ hlist' = hlist
      /\ o' = ConfigOption(hlist, o, opt)
  BY TableIs DEF ReadOption, Starting
<1>2. Early /\ Early'
  BY <1>1 DEF Early
<1>3. /\ OutputType' /\ HeardInv' /\ LinesInv' /\ FileInv'
      /\ tty' \in BOOLEAN /\ usr1' \in BOOLEAN /\ events' \subseteq Events
      /\ cfg' \in Seq(ConfigLine) /\ args' \in Seq(STRING)
      /\ events' = {} /\ output_fh' = 0 /\ unheard' = {}
  BY <1>1, <1>2, StartingKeeps
<1>4. /\ pos \in Nat /\ pos \in 0 .. 6 /\ o \in OptionType
      /\ Parsed(hlist, cfg, Len(cfg)) /\ Follows(o, SaidByFile(pos))
  BY <1>1 DEF IInv, SetupType, ParseInv, OptionInv
<1>5. opt \in Names
  <2>1. pos + 1 \in 1 .. 7
    BY <1>4
  <2>2. opt \in Range(OptionTable)
    BY <2>1, TableIs DEF OptionTable, Range
  <2> QED
    BY <2>2, OptionsAssumption
<1>6. config_string(hlist, "global", opt) = val
  <2>1. config_string(hlist, "global", opt) = FirstInFile(cfg, "global", opt)
    BY <1>4, <1>5, OptionsAssumption, ParsedAll
  <2> QED
    BY <2>1 DEF FirstInFile
<1>7. SaidByFile(pos + 1) =
        IF opt \in AboutSyslog /\ val = "yes"
          THEN IF opt = "no-syslog" THEN "no-syslog" ELSE "syslog"
          ELSE SaidByFile(pos)
  BY <1>4, SaidByFileStep DEF Configured
<1> HIDE DEF opt, val
<1>8. o' \in OptionType /\ Follows(o', SaidByFile(pos + 1))
  <2>1. CASE opt = "logfile" /\ val # NONE
    <3>1. o' = modifier(o, opt) /\ opt \notin AboutSyslog
      BY <1>1, <1>6, <2>1 DEF ConfigOption, AboutSyslog
    <3> QED
      BY <1>4, <1>7, <3>1, ModifierType, ModifierKeeps, SaidTypes
  <2>2. CASE opt # "logfile" /\ val = "yes"
    <3>1. o' = modifier(o, opt)
      BY <1>1, <1>6, <2>2 DEF ConfigOption, NONE
    <3>2. CASE opt \in AboutSyslog
      BY <1>4, <1>7, <2>2, <3>1, <3>2, ModifierType, ModifierDecides
    <3>3. CASE opt \notin AboutSyslog
      BY <1>4, <1>7, <3>1, <3>3, ModifierType, ModifierKeeps, SaidTypes
    <3> QED
      BY <3>2, <3>3
  <2>3. CASE val = NONE \/ (opt # "logfile" /\ val = "no")
    <3>1. o' = o /\ val # "yes"
      BY <1>1, <1>6, <2>3 DEF ConfigOption, NONE
    <3> QED
      BY <1>4, <1>7, <3>1
  <2>4. CASE val \notin {NONE, "yes", "no"} /\ opt # "logfile"
    <3>1. o' = [o EXCEPT !.dead = TRUE]
      BY <1>1, <1>6, <2>4 DEF ConfigOption
    <3>2. /\ o' \in OptionType /\ o'.syslog_opt = o.syslog_opt
          /\ o'.foreground = o.foreground /\ o'.daemon_mode = o.daemon_mode
      BY <1>4, <3>1 DEF OptionType
    <3>3. SaidByFile(pos + 1) = SaidByFile(pos)
      BY <1>7, <2>4
    <3> QED
      BY <1>4, <3>2, <3>3, FollowsDepends
  <2> QED
    BY <2>1, <2>2, <2>3, <2>4
<1>9. SetupType'
  BY <1>1, <1>3, <1>4, <1>8 DEF IInv, SetupType
<1>10. ParseInv'
  BY <1>1, <1>4, TableIs DEF ParseInv
<1>11. OptionInv'
  <2>1. SaidByFile(pos)' = SaidByFile(pos + 1)
    BY <1>1 DEF SaidByFile, Configured
  <2> QED
    BY <1>1, <1>3, <1>8, <2>1 DEF OptionInv, Started
<1> QED
  BY <1>3, <1>9, <1>10, <1>11 DEF IInv

LEMMA OptionsDoneKeeps ==
  ASSUME IInv, OptionsDone
  PROVE  IInv'
<1>1. /\ pc = "options" /\ pc' = "args" /\ pos = 7 /\ pos' = 0
      /\ Starting /\ cfg' = cfg /\ args' = args /\ asked' = asked /\ hlist' = hlist /\ o' = o
  BY TableIs DEF OptionsDone, Starting
<1>2. Early /\ Early'
  BY <1>1 DEF Early
<1>3. /\ OutputType' /\ HeardInv' /\ LinesInv' /\ FileInv'
      /\ tty' \in BOOLEAN /\ usr1' \in BOOLEAN /\ events' \subseteq Events
      /\ cfg' \in Seq(ConfigLine) /\ args' \in Seq(STRING)
      /\ events' = {} /\ output_fh' = 0 /\ unheard' = {}
  BY <1>1, <1>2, StartingKeeps
<1>4. Follows(o, SaidByFile(7))
  BY <1>1 DEF IInv, OptionInv
<1>5. SetupType'
  BY <1>1, <1>3 DEF IInv, SetupType
<1>6. ParseInv'
  <2>1. Len(args') \in Nat
    BY <1>3, LenProperties
  <2> QED
    BY <1>1, <2>1 DEF ParseInv
<1>7. OptionInv'
  <2>1. SaidByUser(pos)' = SaidByFile(7)
    BY <1>1 DEF SaidByUser, About, SaidByFile, Configured
  <2>2. Follows(o, SaidByUser(pos))'
    BY <1>1, <1>4, <2>1
  <2> QED
    BY <1>1, <1>3, <2>2 DEF OptionInv, Started
<1> QED
  BY <1>3, <1>5, <1>6, <1>7 DEF IInv

LEMMA ArgumentKeeps ==
  ASSUME IInv, Argument
  PROVE  IInv'
<1> DEFINE opt == args[pos + 1]
<1>1. /\ pc = "args" /\ pc' = "args" /\ pos < Len(args) /\ pos' = pos + 1
      /\ Starting /\ cfg' = cfg /\ args' = args /\ asked' = asked /\ hlist' = hlist
      /\ o' = IF opt # "ascii" THEN modifier(o, opt)
              ELSE IF o.ascii THEN [o EXCEPT !.dead = TRUE]
              ELSE [o EXCEPT !.ascii = TRUE]
  BY DEF Argument, Starting
<1>2. Early /\ Early'
  BY <1>1 DEF Early
<1>3. /\ OutputType' /\ HeardInv' /\ LinesInv' /\ FileInv'
      /\ tty' \in BOOLEAN /\ usr1' \in BOOLEAN /\ events' \subseteq Events
      /\ cfg' \in Seq(ConfigLine) /\ args' \in Seq(STRING)
      /\ events' = {} /\ output_fh' = 0 /\ unheard' = {}
  BY <1>1, <1>2, StartingKeeps
<1>4. pos \in Nat /\ o \in OptionType /\ Follows(o, SaidByUser(pos))
  BY <1>1 DEF IInv, SetupType, OptionInv
<1>5. SaidByUser(pos + 1) =
        IF opt \in AboutSyslog THEN IF opt = "no-syslog" THEN "no-syslog" ELSE "syslog"
        ELSE SaidByUser(pos)
  BY <1>4, SaidByUserStep
<1> HIDE DEF opt
<1>6. o' \in OptionType /\ Follows(o', SaidByUser(pos + 1))
  <2>1. CASE opt \in AboutSyslog
    <3>1. o' = modifier(o, opt)
      BY <1>1, <2>1 DEF AboutSyslog
    <3> QED
      BY <1>4, <1>5, <2>1, <3>1, ModifierType, ModifierDecides
  <2>2. CASE opt \notin AboutSyslog /\ opt # "ascii"
    BY <1>1, <1>4, <1>5, <2>2, ModifierType, ModifierKeeps, SaidTypes
  <2>3. CASE opt = "ascii"
    <3>1. /\ o' \in OptionType /\ o'.syslog_opt = o.syslog_opt
          /\ o'.foreground = o.foreground /\ o'.daemon_mode = o.daemon_mode
      BY <1>1, <1>4, <2>3 DEF OptionType
    <3>2. SaidByUser(pos + 1) = SaidByUser(pos)
      BY <1>5, <2>3 DEF AboutSyslog
    <3> QED
      BY <1>4, <3>1, <3>2, FollowsDepends
  <2> QED
    BY <2>1, <2>2, <2>3
<1>7. SetupType'
  BY <1>1, <1>3, <1>4, <1>6 DEF IInv, SetupType
<1>8. ParseInv'
  <2>1. Len(args) \in Nat
    BY <1>1, <1>3, LenProperties
  <2> QED
    BY <1>1, <1>4, <2>1 DEF ParseInv
<1>9. OptionInv'
  <2>1. SaidByUser(pos)' = SaidByUser(pos + 1)
    BY <1>1 DEF SaidByUser, About, SaidByFile, Configured
  <2> QED
    BY <1>1, <1>3, <1>6, <2>1 DEF OptionInv, Started
<1> QED
  BY <1>3, <1>7, <1>8, <1>9 DEF IInv

LEMMA ArgumentsDoneKeeps ==
  ASSUME IInv, ArgumentsDone
  PROVE  IInv'
<1>1. /\ pc = "args" /\ pc' = "finish" /\ pos = Len(args) /\ pos' = pos
      /\ Starting /\ cfg' = cfg /\ args' = args /\ asked' = Asked /\ hlist' = hlist /\ o' = o
  BY DEF ArgumentsDone, Starting
<1>2. Early /\ Early'
  BY <1>1 DEF Early
<1>3. /\ OutputType' /\ HeardInv' /\ LinesInv' /\ FileInv'
      /\ tty' \in BOOLEAN /\ usr1' \in BOOLEAN /\ events' \subseteq Events
      /\ cfg' \in Seq(ConfigLine) /\ args' \in Seq(STRING)
      /\ events' = {} /\ output_fh' = 0 /\ unheard' = {}
  BY <1>1, <1>2, StartingKeeps
<1>4. asked' = SaidByUser(pos) /\ asked' \in Whats /\ Follows(o, asked')
  <2>1. asked' = SaidByUser(pos)
    BY <1>1, SaidAtEnd
  <2>2. Follows(o, SaidByUser(pos))
    BY <1>1 DEF IInv, OptionInv
  <2> QED
    BY <2>1, <2>2, SaidTypes
<1>5. SetupType'
  BY <1>1, <1>3, <1>4 DEF IInv, SetupType, Whats
<1>6. ParseInv'
  BY <1>1 DEF ParseInv
<1>7. OptionInv'
  BY <1>1, <1>3, <1>4 DEF OptionInv, Started
<1> QED
  BY <1>3, <1>5, <1>6, <1>7 DEF IInv

-----------------------------------------------------------------------------
(* The end of the start *)

(* The setup that remains.                                                 *)
LEMMA RunIs ==
  ASSUME IInv, NEW opts \in OptionType, Run(opts), pc = "finish",
         UNCHANGED <<usr1, said, asked>>, events' \subseteq Events
  PROVE  SetupType' /\ ParseInv' /\ pc' = "daemonize" /\ o' = opts
<1>1. << >> \in Seq(ConfigLine) /\ << >> \in Seq(STRING) /\ << >> \in Seq(Header)
  BY EmptySeq
<1>2. SetupType'
  BY <1>1 DEF IInv, SetupType, Run
<1>3. ParseInv'
  BY DEF Run, ParseInv
<1> QED
  BY <1>2, <1>3 DEF Run

LEMMA AsciiCommandKeeps ==
  ASSUME IInv, AsciiCommand
  PROVE  IInv'
<1>1. /\ pc = "finish" /\ o.ascii /\ Run(no_syslog(o))
      /\ UNCHANGED <<files, name, output_fh, usr1, said, asked, events>>
  BY DEF AsciiCommand
<1>2. /\ o \in OptionType /\ Follows(o, asked) /\ events = {} /\ output_fh = 0
      /\ unheard = {} /\ asked \in Whats
  BY <1>1 DEF IInv, SetupType, OptionInv, Started, Whats
<1> DEFINE s == IF Forced(o) THEN o.syslog_opt ELSE {}
<1>3. s \in SUBSET (SYSLOG_ALL \cup {"FORCE"})
  BY <1>2 DEF OptionType
<1>4. no_syslog(o) = [o EXCEPT !.syslog_opt = s]
  BY <1>2 DEF no_syslog, OptionType
<1>5. (Forced(o) => s = o.syslog_opt) /\ (~ Forced(o) => s = {})
  OBVIOUS
<1> HIDE DEF s
<1>6. /\ no_syslog(o) \in OptionType /\ no_syslog(o).syslog_opt = s
      /\ no_syslog(o).foreground = o.foreground /\ no_syslog(o).ascii = o.ascii
      /\ no_syslog(o).daemon_mode = o.daemon_mode
  BY <1>2, <1>3, <1>4 DEF OptionType
<1>7. events' \subseteq Events
  BY <1>1, <1>2
<1>8. SetupType' /\ ParseInv' /\ pc' = "daemonize" /\ o' = no_syslog(o)
  BY <1>1, <1>6, <1>7, RunIs
<1>9. asked # "nothing" => Follows(no_syslog(o), asked)
  <2>1. CASE Forced(o)
    BY <1>2, <1>5, <1>6, <2>1, FollowsDepends
  <2>2. CASE ~ Forced(o)
    BY <1>2, <2>2 DEF Follows, Forced, Whats
  <2> QED
    BY <2>1, <2>2
<1>10. OptionInv'
  BY <1>1, <1>8, <1>9 DEF OptionInv, Started
<1>11. HeardInv'
  BY <1>1, <1>2, <1>6, <1>8 DEF HeardInv, EveryMessageHeard, Background, said
<1>12. OutputType' /\ LinesInv'
  BY <1>1, SameLines DEF IInv, OutputType, said
<1>13. FileInv'
  BY <1>1, <1>2, <1>8 DEF IInv, FileInv, said, Started
<1> QED
  BY <1>8, <1>10, <1>11, <1>12, <1>13 DEF IInv

(* A log file is opened: nothing of what is in the files changes.          *)
LEMMA OpenKeeps ==
  ASSUME NEW fs \in Seq(Seq(Nat)), Len(fs) > 0, name \in {0, Len(fs)}, open_logfile(fs)
  PROVE  /\ files' \in Seq(Seq(Nat)) /\ Len(files') > 0
         /\ name' \in {0, Len(files')} /\ output_fh' = Len(files')
         /\ FlattenSeq(files') = FlattenSeq(fs)
<1>1. CASE name = 0
  <2>1. output_fh' = Len(fs) + 1 /\ files' = Append(fs, << >>) /\ name' = Len(fs) + 1
    BY <1>1 DEF open_logfile
  <2>2. /\ files' \in Seq(Seq(Nat)) /\ Len(files') = Len(fs) + 1
        /\ FlattenSeq(files') = FlattenSeq(fs)
    BY <2>1, FlattenNew
  <2>3. Len(fs) \in Nat
    BY LenProperties
  <2> QED
    BY <2>1, <2>2, <2>3
<1>2. CASE name # 0
  <2>1. output_fh' = name /\ files' = fs /\ name' = name
    BY <1>2 DEF open_logfile
  <2> QED
    BY <1>2, <2>1
<1> QED
  BY <1>1, <1>2

LEMMA ModifierFinishKeeps ==
  ASSUME IInv, modifier_finish
  PROVE  IInv'
<1>1. pc = "finish" /\ ~ o.ascii /\ UNCHANGED <<usr1, said, asked>>
  BY DEF modifier_finish
<1>2. /\ o \in OptionType /\ Follows(o, asked) /\ events = {} /\ output_fh = 0
      /\ unheard = {} /\ asked \in Whats
  BY <1>1 DEF IInv, SetupType, OptionInv, Started, Whats
<1>3. /\ files \in Seq(Seq(Nat)) /\ Len(files) > 0 /\ name \in {0, Len(files)}
      /\ buf = << >> /\ FlattenSeq(files) \o buf = filed /\ durable <= Len(FlattenSeq(files))
  BY <1>2 DEF IInv, OutputType, FileInv
<1>4. LinesInv'
  BY <1>1, SameLines DEF IInv, said
<1>5. /\ buf' = buf /\ filed' = filed /\ durable' = durable /\ asked' = asked
      /\ line' \in Seq(Nat \ {NL}) /\ Len(line') < LineSize
      /\ syslog' \in Seq(Nat) /\ given' \in Seq(Given) /\ buf' \in Seq(Nat)
      /\ unheard' = unheard /\ unheard' \subseteq Kinds
      /\ filed' \in Seq(Nat) /\ sent' \in Nat /\ durable' \in Nat
  BY <1>1 DEF IInv, OutputType, said
<1>6. CASE ~ WantsLogfile(o) /\ Run(o) /\ UNCHANGED <<files, name, output_fh, events>>
  <2>1. events' \subseteq Events
    BY <1>2, <1>6
  <2>2. SetupType' /\ ParseInv' /\ pc' = "daemonize" /\ o' = o
    BY <1>1, <1>2, <1>6, <2>1, RunIs
  <2>3. OptionInv'
    BY <1>2, <1>5, <2>2 DEF OptionInv, Started
  <2>4. Background(o) => asked = "syslog"
    BY <1>2, <1>6 DEF Background, WantsLogfile, Follows, Whats
  <2>5. HeardInv'
    BY <1>2, <1>5, <1>6, <2>2, <2>4 DEF HeardInv, EveryMessageHeard
  <2>6. OutputType' /\ LinesInv' /\ FileInv'
    BY <1>2, <1>3, <1>4, <1>5, <1>6 DEF IInv, OutputType, FileInv
  <2> QED
    BY <2>2, <2>3, <2>5, <2>6 DEF IInv
<1>7. CASE open_logfile(files) /\ Run(o) /\ UNCHANGED events
  <2>1. events' \subseteq Events
    BY <1>2, <1>7
  <2>2. SetupType' /\ ParseInv' /\ pc' = "daemonize" /\ o' = o
    BY <1>1, <1>2, <1>7, <2>1, RunIs
  <2>3. /\ files' \in Seq(Seq(Nat)) /\ Len(files') > 0
        /\ name' \in {0, Len(files')} /\ output_fh' = Len(files')
        /\ FlattenSeq(files') = FlattenSeq(files)
    BY <1>3, <1>7, OpenKeeps
  <2>4. Len(files') \in Nat /\ output_fh' # 0
    BY <2>3, LenProperties
  <2>5. OptionInv'
    BY <1>2, <1>5, <2>2 DEF OptionInv, Started
  <2>6. HeardInv'
    <3>1. Background(o) /\ asked = "nothing" => {"REMARK", "ERROR"} \subseteq o.syslog_opt
      BY <1>2 DEF Follows, Background
    <3> QED
      BY <1>2, <1>5, <1>7, <2>2, <2>4, <3>1 DEF HeardInv, EveryMessageHeard
  <2>7. OutputType' /\ LinesInv'
    BY <1>2, <1>4, <1>5, <1>7, <2>3, <2>4 DEF OutputType
  <2>8. \A f \in 1 .. Len(files') : ~ (f > output_fh')
    BY <2>3, <2>4
  <2>9. FileInv'
    BY <1>3, <1>5, <2>3, <2>4, <2>8 DEF FileInv
  <2> QED
    BY <2>2, <2>5, <2>6, <2>7, <2>9 DEF IInv
<1>8. CASE /\ IF o.daemon_mode THEN Run(OpenFailed(o)) ELSE pc' = "ended" /\ UNCHANGED setup
           /\ events' = events \cup {"open failed"}
           /\ UNCHANGED <<files, name, output_fh>>
  <2>1. events' = {"open failed"} /\ events' \subseteq Events
    BY <1>2, <1>8 DEF Events
  <2>2. OutputType' /\ LinesInv' /\ FileInv'
    BY <1>2, <1>3, <1>4, <1>5, <1>8, <2>1 DEF IInv, OutputType, FileInv
  <2>3. CASE o.daemon_mode
    <3> DEFINE new == OpenFailed(o)
    <3>1. /\ new \in OptionType /\ new.foreground = o.foreground
          /\ Forced(o) => new = o
          /\ ~ Forced(o) => new.syslog_opt = SYSLOG_ALL
      BY <1>2, <2>3 DEF OpenFailed, OptionType
    <3>2. Run(new)
      BY <1>8, <2>3
    <3> HIDE DEF new
    <3>3. SetupType' /\ ParseInv' /\ pc' = "daemonize" /\ o' = new
      BY <1>1, <2>1, <3>1, <3>2, RunIs
    <3>4. asked # "nothing" => Forced(o) /\ Follows(new, asked)
      <4>1. asked # "nothing" => Forced(o)
        BY <1>2 DEF Whats, Follows, Forced
      <4> QED
        BY <1>2, <3>1, <4>1
    <3>5. asked = "nothing" /\ Background(new) => new.syslog_opt = SYSLOG_ALL
      BY <1>2, <3>1 DEF Follows, Background
    <3>8. asked = "nothing" /\ Background(new) => {"REMARK", "ERROR"} \subseteq new.syslog_opt
      BY <3>5 DEF SYSLOG_ALL
    <3>6. OptionInv'
      BY <1>5, <3>3, <3>4 DEF OptionInv, Started
    <3>7. HeardInv'
      BY <1>2, <1>5, <2>1, <3>3, <3>5, <3>8 DEF HeardInv, EveryMessageHeard
    <3> QED
      BY <2>2, <3>3, <3>6, <3>7 DEF IInv
  <2>4. CASE ~ o.daemon_mode
    <3>1. pc' = "ended" /\ UNCHANGED setup
      BY <1>8, <2>4
    <3>2. SetupType' /\ ParseInv' /\ OptionInv' /\ HeardInv'
      BY <1>1, <1>2, <1>5, <2>1, <3>1 DEF IInv, SetupType, ParseInv, OptionInv, HeardInv, EveryMessageHeard,
         setup, Started
    <3> QED
      BY <2>2, <3>2 DEF IInv
  <2> QED
    BY <2>3, <2>4
<1> QED
  BY <1>6, <1>7, <1>8 DEF modifier_finish

LEMMA DaemonizeKeeps ==
  ASSUME IInv, Daemonize
  PROVE  IInv'
<1>1. /\ pc = "daemonize" /\ pc' = "running" /\ tty' = (~ Background(o) \/ need_stdout)
      /\ UNCHANGED <<cfg, args, pos, hlist, o, files, name, output_fh, buf, line, syslog, usr1,
                     history>>
  BY DEF Daemonize
<1>2. UNCHANGED <<sent, filed, given, unheard, durable, asked, events>>
  BY <1>1 DEF history
<1>3. tty' \in BOOLEAN /\ (~ tty' => Background(o))
  BY <1>1
<1>4. SetupType'
  BY <1>1, <1>2, <1>3 DEF IInv, SetupType
<1>5. ParseInv' /\ OptionInv'
  BY <1>1, <1>2 DEF IInv, ParseInv, OptionInv, Started
<1>6. HeardInv'
  <2>1. Full' = Full /\ Background(o)' = Background(o)
    BY <1>1 DEF Full, Background
  <2> QED
    BY <1>1, <1>2, <1>3, <2>1 DEF IInv, HeardInv, EveryMessageHeard
<1>7. OutputType' /\ LinesInv' /\ FileInv'
  BY <1>1, <1>2, SameLines DEF IInv, OutputType, FileInv
<1> QED
  BY <1>4, <1>5, <1>6, <1>7 DEF IInv

-----------------------------------------------------------------------------
(* Messages *)

(* A message reaches something unless the log file is missing, or the line
   buffer is full.                                                         *)
LEMMA MessageHeard ==
  ASSUME IInv, pc = "running", NEW kind \in Kinds,
         ~ (o.syslog_opt \cap ToSyslog(kind) # {} /\ ~ (kind \in LineBuffered /\ Full)),
         ~ (/\ NotPrinted(kind) \notin o.syslog_opt \/ output_fh # 0
            /\ output_fh # 0 \/ tty)
  PROVE  \/ asked = "no-syslog" /\ {"open failed", "reopen failed"} \cap events # {}
         \/ asked = "nothing" /\ "reopen failed" \in events /\ kind = "Wprintf"
         \/ kind \in LineBuffered /\ Full
<1> SUFFICES ASSUME o.syslog_opt \cap ToSyslog(kind) = {}
             PROVE  \/ asked = "no-syslog" /\ {"open failed", "reopen failed"} \cap events # {}
                    \/ asked = "nothing" /\ "reopen failed" \in events /\ kind = "Wprintf"
  OBVIOUS
<1> USE DEF Kinds
<1>1. NotPrinted(kind) \in ToSyslog(kind) /\ ToSyslog(kind) \subseteq SYSLOG_ALL
  <2>1. CASE kind = "Lprintf"
    BY <2>1 DEF NotPrinted, ToSyslog, SYSLOG_ALL
  <2>2. CASE kind = "Eprintf"
    BY <2>2 DEF NotPrinted, ToSyslog, SYSLOG_ALL
  <2>3. CASE kind = "Wprintf"
    BY <2>3 DEF NotPrinted, ToSyslog, SYSLOG_ALL
  <2>4. CASE kind = "Gprintf"
    BY <2>4 DEF NotPrinted, ToSyslog, SYSLOG_ALL
  <2> QED
    BY <2>1, <2>2, <2>3, <2>4
<1>2. NotPrinted(kind) \notin o.syslog_opt /\ NotPrinted(kind) \in SYSLOG_ALL
  BY <1>1
<1>3. output_fh = 0 /\ ~ tty
  BY <1>2
<1>4. Background(o) /\ asked \in Whats
  BY <1>3 DEF IInv, HeardInv, SetupType, Whats
<1>5. asked # "syslog"
  BY <1>2 DEF IInv, OptionInv, Follows
<1>6. "open failed" \in events \/ "reopen failed" \in events
  BY <1>3, <1>4, <1>5 DEF IInv, HeardInv
<1>7. "open failed" \in events => asked # "nothing"
  BY <1>2, <1>4 DEF IInv, HeardInv
<1>8. asked = "nothing" => kind = "Wprintf"
  <2> SUFFICES ASSUME asked = "nothing", kind # "Wprintf" PROVE FALSE
    OBVIOUS
  <2>1. {"REMARK", "ERROR"} \subseteq o.syslog_opt
    BY <1>4 DEF IInv, HeardInv
  <2>2. CASE kind = "Lprintf"
    BY <2>1, <2>2 DEF ToSyslog
  <2>3. CASE kind = "Eprintf"
    BY <2>1, <2>3 DEF ToSyslog
  <2>4. CASE kind = "Gprintf"
    BY <2>1, <2>4 DEF ToSyslog
  <2> QED
    BY <2>2, <2>3, <2>4
<1> QED
  BY <1>4, <1>5, <1>6, <1>7, <1>8 DEF Whats

LEMMA MessageKeeps ==
  ASSUME IInv, NEW kind \in Kinds,
         NEW pattern \in Seq({1, NL}), Message(kind, pattern)
  PROVE  IInv'
<1> DEFINE text == Text(sent + 1, pattern)
           log == o.syslog_opt \cap ToSyslog(kind) # {}
           print == NotPrinted(kind) \notin o.syslog_opt \/ output_fh # 0
           lined == log /\ kind \in LineBuffered
           heard == \/ log /\ ~ (kind \in LineBuffered /\ Full)
                    \/ print /\ (output_fh # 0 \/ tty)
<1>1. /\ pc = "running" /\ sent' = sent + 1
      /\ UNCHANGED <<pc, setup, files, name, output_fh, usr1, durable, asked>>
  BY DEF Message
<1>2. IF lined THEN vlinesyslog(text) ELSE UNCHANGED <<line, syslog, given>>
  BY DEF Message
<1>3. IF print /\ output_fh # 0
        THEN buf' = buf \o text /\ filed' = filed \o text
        ELSE UNCHANGED <<buf, filed>>
  BY DEF Message
<1>4. /\ events' = events \cup (IF log THEN {"syslog used"} ELSE {})
      /\ unheard' = unheard \cup (IF heard THEN {} ELSE {kind})
  BY DEF Message
<1>5. /\ line \in Seq(Nat \ {NL}) /\ Len(line) < LineSize /\ syslog \in Seq(Nat)
      /\ given \in Seq(Given) /\ sent \in Nat /\ buf \in Seq(Nat) /\ filed \in Seq(Nat)
      /\ files \in Seq(Seq(Nat)) /\ Len(files) > 0
  BY DEF IInv, OutputType, FileInv
<1>6. text \in Seq(Nat)
  BY <1>5, TextType
<1>7. UNCHANGED <<cfg, args, pos, hlist, o, tty>>
  BY <1>1 DEF setup
<1>8. ~ heard =>
        \/ asked = "no-syslog" /\ {"open failed", "reopen failed"} \cap events # {}
        \/ asked = "nothing" /\ "reopen failed" \in events /\ kind = "Wprintf"
        \/ kind \in LineBuffered /\ Full
  BY <1>1, MessageHeard
<1>9. asked = "no-syslog" => ~ log
  <2>1. asked = "no-syslog" => o.syslog_opt = {"FORCE"}
    BY <1>1 DEF IInv, OptionInv, Follows
  <2>2. "FORCE" \notin ToSyslog(kind)
    <3>1. CASE kind = "Lprintf"
      BY <3>1 DEF ToSyslog
    <3>2. CASE kind = "Eprintf"
      BY <3>2 DEF ToSyslog
    <3>3. CASE kind = "Wprintf"
      BY <3>3 DEF ToSyslog
    <3>4. CASE kind = "Gprintf"
      BY <3>4 DEF ToSyslog
    <3> QED
      BY <3>1, <3>2, <3>3, <3>4 DEF Kinds
  <2> QED
    BY <2>1, <2>2
<1> HIDE DEF text, log, print, lined, heard
<1>10. /\ events' \subseteq Events /\ events \subseteq events'
       /\ "open failed" \in events' => "open failed" \in events
       /\ "syslog used" \in events' => "syslog used" \in events \/ log
       /\ unheard' \subseteq Kinds
       /\ \A q \in unheard' : q \in unheard \/ (~ heard /\ q = kind)
  <2>1. events \subseteq Events
    BY DEF IInv, SetupType
  <2> QED
    BY <1>4, <2>1 DEF IInv, OutputType, Events
<1>11. SetupType' /\ ParseInv' /\ OptionInv'
  BY <1>1, <1>7, <1>10 DEF IInv, SetupType, ParseInv, OptionInv, Started
<1>13. /\ line' \in Seq(Nat \ {NL}) /\ Len(line') < LineSize
       /\ syslog' \in Seq(Nat) /\ given' \in Seq(Given) /\ LinesInv'
       /\ Full => Full'
  <2>0. LinesInv
    BY DEF IInv
  <2>1. CASE lined
    <3>1. vlinesyslog(text)
      BY <1>2, <2>1
    <3> QED
      BY <1>5, <1>6, <2>0, <3>1, LineBufferKeeps
  <2>2. CASE ~ lined
    <3>1. UNCHANGED <<line, syslog, given>>
      BY <1>2, <2>2
    <3>2. Full' = Full
      BY <3>1 DEF Full
    <3>3. LinesInv'
      BY <2>0, <3>1, SameLines
    <3> QED
      BY <1>5, <3>1, <3>2, <3>3
  <2> QED
    BY <2>1, <2>2
<1>12. HeardInv'
  <2>1. EveryMessageHeard'
    <3> SUFFICES ASSUME NEW q \in unheard'
                 PROVE  \/ asked' = "no-syslog" /\ {"open failed", "reopen failed"} \cap events' # {}
                        \/ asked' = "nothing" /\ "reopen failed" \in events' /\ q = "Wprintf"
                        \/ q \in LineBuffered /\ Full'
      BY DEF EveryMessageHeard
    <3>1. \/ asked = "no-syslog" /\ {"open failed", "reopen failed"} \cap events # {}
          \/ asked = "nothing" /\ "reopen failed" \in events /\ q = "Wprintf"
          \/ q \in LineBuffered /\ Full
      <4>1. CASE q \in unheard
        BY <4>1 DEF IInv, HeardInv, EveryMessageHeard
      <4>2. CASE ~ heard /\ q = kind
        BY <1>8, <4>2
      <4> QED
        BY <1>10, <4>1, <4>2
    <3>2. asked' = asked /\ events \subseteq events'
      BY <1>1, <1>10
    <3> QED
      BY <1>13, <3>1, <3>2
  <2>2. /\ Background(o) /\ output_fh = 0 /\ asked # "syslog" =>
             "open failed" \in events \/ "reopen failed" \in events
        /\ Background(o) /\ "open failed" \in events /\ asked = "nothing" =>
             o.syslog_opt = SYSLOG_ALL
        /\ Background(o) /\ asked = "nothing" => {"REMARK", "ERROR"} \subseteq o.syslog_opt
        /\ asked = "no-syslog" => "syslog used" \notin events
        /\ ~ tty => Background(o)
    BY <1>1 DEF IInv, HeardInv
  <2>3. Background(o)' = Background(o)
    BY <1>7 DEF Background
  <2> QED
    BY <1>1, <1>7, <1>9, <1>10, <2>1, <2>2, <2>3 DEF HeardInv
<1>14. /\ buf' \in Seq(Nat) /\ filed' \in Seq(Nat)
       /\ FlattenSeq(files) \o buf' = filed' /\ (output_fh = 0 => buf' = << >>)
  <2>1. FlattenSeq(files) \o buf = filed /\ (output_fh = 0 => buf = << >>)
    BY DEF IInv, FileInv
  <2>2. CASE print /\ output_fh # 0
    <3>1. buf' = buf \o text /\ filed' = filed \o text
      BY <1>3, <2>2
    <3>2. buf \o text \in Seq(Nat) /\ filed \o text \in Seq(Nat)
      BY <1>5, <1>6, ConcatProperties
    <3>3. FlattenSeq(files) \in Seq(Nat)
      BY <1>5, FlattenType
    <3>4. (FlattenSeq(files) \o buf) \o text = FlattenSeq(files) \o (buf \o text)
      BY <1>5, <1>6, <3>3, Associates
    <3> QED
      BY <2>1, <2>2, <3>1, <3>2, <3>4
  <2>3. CASE ~ (print /\ output_fh # 0)
    BY <1>3, <1>5, <2>1, <2>3
  <2> QED
    BY <2>2, <2>3
<1>15. OutputType'
  <2>1. sent' \in Nat
    BY <1>1, <1>5
  <2> QED
    BY <1>1, <1>10, <1>13, <1>14, <2>1 DEF IInv, OutputType
<1>16. FileInv'
  BY <1>1, <1>14 DEF IInv, FileInv
<1> QED
  BY <1>11, <1>12, <1>13, <1>15, <1>16 DEF IInv

-----------------------------------------------------------------------------
(* Flushes, rotations and the end *)

(* What was printed is in the files once the buffer is written.            *)
LEMMA FlushedIs ==
  ASSUME IInv
  PROVE  /\ Flushed \in Seq(Seq(Nat)) /\ Len(Flushed) = Len(files)
         /\ FlattenSeq(Flushed) = filed /\ filed \o << >> = filed
         /\ output_fh # 0 => \A f \in 1 .. Len(Flushed) : f > output_fh => Flushed[f] = << >>
         /\ durable <= Len(filed)
<1>1. /\ files \in Seq(Seq(Nat)) /\ Len(files) > 0 /\ buf \in Seq(Nat) /\ filed \in Seq(Nat)
      /\ output_fh \in 0 .. Len(files) /\ durable \in Nat
      /\ FlattenSeq(files) \o buf = filed /\ durable <= Len(FlattenSeq(files))
      /\ output_fh = 0 => buf = << >>
      /\ output_fh # 0 => \A f \in 1 .. Len(files) : f > output_fh => files[f] = << >>
  BY DEF IInv, OutputType, FileInv
<1>2. FlattenSeq(files) \in Seq(Nat)
  BY <1>1, FlattenType
<1>3. filed \o << >> = filed
  BY <1>1, ConcatEmptySeq
<1>4. durable <= Len(filed)
  <2>1. Len(filed) = Len(FlattenSeq(files)) + Len(buf)
    BY <1>1, <1>2, ConcatProperties
  <2>2. Len(buf) \in Nat /\ Len(FlattenSeq(files)) \in Nat
    BY <1>1, <1>2, LenProperties
  <2> QED
    BY <1>1, <2>1, <2>2
<1>5. CASE output_fh = 0
  <2>1. Flushed = files
    BY <1>5 DEF Flushed
  <2>2. FlattenSeq(files) = filed
    BY <1>1, <1>2, <1>5, ConcatEmptySeq
  <2> QED
    BY <1>1, <1>3, <1>4, <1>5, <2>1, <2>2
<1>6. CASE output_fh # 0
  <2>1. Flushed = [files EXCEPT ![output_fh] = @ \o buf]
    BY <1>6 DEF Flushed
  <2>2. output_fh \in 1 .. Len(files)
    <3>1. Len(files) \in Nat
      BY <1>1, LenProperties
    <3> QED
      BY <1>1, <1>6, <3>1
  <2>3. \A f \in 1 .. Len(files) : f > output_fh => files[f] = << >>
    BY <1>1, <1>6
  <2>4. LET gs == [files EXCEPT ![output_fh] = @ \o buf]
        IN  /\ gs \in Seq(Seq(Nat)) /\ Len(gs) = Len(files)
            /\ \A f \in 1 .. Len(files) : f > output_fh => gs[f] = << >>
            /\ FlattenSeq(gs) = FlattenSeq(files) \o buf
    BY <1>1, <2>2, <2>3, FlattenWrite
  <2> QED
    BY <1>1, <1>3, <1>4, <2>1, <2>4
<1> QED
  BY <1>5, <1>6

(* A step that writes the buffer, and leaves the options alone.            *)
LEMMA FlushKeeps ==
  ASSUME IInv, pc \in {"running", "ended"}, files' = Flushed, buf' = << >>,
         pc' \in {"running", "ended"}, pc' = "running" => pc = "running", UNCHANGED setup,
         UNCHANGED <<name, output_fh, usr1, line, syslog>>,
         UNCHANGED <<sent, filed, given, unheard, asked, events>>,
         durable' \in Nat, durable' <= Len(filed)
  PROVE  IInv'
<1>1. /\ Flushed \in Seq(Seq(Nat)) /\ Len(Flushed) = Len(files)
      /\ FlattenSeq(Flushed) = filed /\ filed \o << >> = filed
      /\ output_fh # 0 => \A f \in 1 .. Len(Flushed) : f > output_fh => Flushed[f] = << >>
  BY FlushedIs
<1>2. << >> \in Seq(Nat)
  BY EmptySeq
<1>3. UNCHANGED <<cfg, args, pos, hlist, o, tty>>
  BY DEF setup
<1>4. SetupType' /\ ParseInv'
  BY <1>3 DEF IInv, SetupType, ParseInv
<1>5. OptionInv'
  BY <1>3 DEF IInv, OptionInv, Started
<1>6. HeardInv'
  <2>1. Background(o)' = Background(o) /\ Full' = Full
    BY <1>3 DEF Background, Full
  <2> QED
    BY <1>3, <2>1 DEF IInv, HeardInv, EveryMessageHeard
<1>7. LinesInv'
  BY SameLines DEF IInv
<1>8. OutputType'
  BY <1>1, <1>2 DEF IInv, OutputType
<1>9. FileInv'
  BY <1>1 DEF IInv, FileInv
<1> QED
  BY <1>4, <1>5, <1>6, <1>7, <1>8, <1>9 DEF IInv

LEMMA StdioWritesKeeps ==
  ASSUME IInv, StdioWrites
  PROVE  IInv'
<1>1. durable \in Nat /\ durable <= Len(filed)
  BY FlushedIs DEF IInv, OutputType
<1> QED
  BY <1>1, FlushKeeps DEF StdioWrites, history

LEMMA EndRecordKeeps ==
  ASSUME IInv, EndRecord
  PROVE  IInv'
<1>1. Len(filed) \in Nat
  BY LenProperties DEF IInv, OutputType
<1> QED
  BY <1>1, FlushKeeps DEF EndRecord, flushlog

LEMMA RotateKeeps ==
  ASSUME IInv, Rotate
  PROVE  IInv'
<1>1. /\ pc = "running" /\ output_fh # 0 /\ usr1' = TRUE
      /\ UNCHANGED <<pc, setup, output_fh, said, asked, events>>
  BY DEF Rotate
<1>2. UNCHANGED <<cfg, args, pos, hlist, o, tty, buf, line, syslog, sent, filed, given,
                  unheard, durable>>
  BY <1>1 DEF setup, said
<1>3. /\ files \in Seq(Seq(Nat)) /\ Len(files) > 0 /\ Len(files) \in Nat
      /\ output_fh \in 0 .. Len(files)
      /\ \A f \in 1 .. Len(files) : f > output_fh => files[f] = << >>
  BY <1>1, LenProperties DEF IInv, OutputType, FileInv
<1>4. /\ files' \in Seq(Seq(Nat)) /\ Len(files') > 0 /\ name' \in {0, Len(files')}
      /\ output_fh \in 0 .. Len(files')
      /\ FlattenSeq(files') = FlattenSeq(files)
      /\ \A f \in 1 .. Len(files') : f > output_fh => files'[f] = << >>
  <2>1. CASE files' = Append(files, << >>) /\ name' = Len(files) + 1
    <3>1. /\ files' \in Seq(Seq(Nat)) /\ Len(files') = Len(files) + 1
          /\ \A f \in 1 .. Len(files) : files'[f] = files[f]
          /\ files'[Len(files) + 1] = << >>
          /\ FlattenSeq(files') = FlattenSeq(files)
      BY <1>3, <2>1, FlattenNew
    <3>2. \A f \in 1 .. Len(files') : f \in 1 .. Len(files) \/ f = Len(files) + 1
      BY <1>3, <3>1
    <3> QED
      BY <1>3, <2>1, <3>1, <3>2
  <2>2. CASE name' = 0 /\ files' = files
    BY <1>3, <2>2
  <2> QED
    BY <2>1, <2>2 DEF Rotate
<1>5. SetupType' /\ ParseInv'
  BY <1>1, <1>2 DEF IInv, SetupType, ParseInv
<1>6. OptionInv'
  BY <1>1, <1>2 DEF IInv, OptionInv, Started
<1>7. HeardInv'
  <2>1. Background(o)' = Background(o) /\ Full' = Full
    BY <1>1, <1>2 DEF Background, Full
  <2> QED
    BY <1>1, <1>2, <2>1 DEF IInv, HeardInv, EveryMessageHeard
<1>8. LinesInv'
  BY <1>2, SameLines DEF IInv
<1>9. OutputType'
  BY <1>1, <1>2, <1>4 DEF IInv, OutputType
<1>10. FileInv'
  BY <1>1, <1>2, <1>4 DEF IInv, FileInv
<1> QED
  BY <1>5, <1>6, <1>7, <1>8, <1>9, <1>10 DEF IInv

LEMMA Sigusr1Keeps ==
  ASSUME IInv, handle_sigusr1
  PROVE  IInv'
<1>1. /\ pc = "running" /\ usr1' = FALSE
      /\ UNCHANGED <<pc, setup, line, syslog, sent, filed, given, unheard, durable, asked>>
  BY DEF handle_sigusr1
<1>2. UNCHANGED <<cfg, args, pos, hlist, o, tty>>
  BY <1>1 DEF setup
<1>3. /\ files \in Seq(Seq(Nat)) /\ Len(files) > 0 /\ name \in {0, Len(files)}
      /\ durable \in Nat /\ filed \in Seq(Nat)
  BY DEF IInv, OutputType, FileInv
<1>4. /\ files' \in Seq(Seq(Nat)) /\ Len(files') > 0 /\ name' \in {0, Len(files')}
      /\ output_fh' \in 0 .. Len(files') /\ buf' \in Seq(Nat)
      /\ FlattenSeq(files') \o buf' = filed /\ durable <= Len(FlattenSeq(files'))
      /\ output_fh' = 0 => buf' = << >>
      /\ output_fh' # 0 => \A f \in 1 .. Len(files') : f > output_fh' => files'[f] = << >>
      /\ events' \subseteq Events /\ events \subseteq events'
      /\ \A e \in events' : e \in events \/ e = "reopen failed"
      /\ output_fh' = 0 => output_fh = 0 \/ "reopen failed" \in events'
  <2>0. events \subseteq Events /\ "reopen failed" \in Events
    BY DEF IInv, SetupType, Events
  <2>1. CASE output_fh = 0
    <3>1. UNCHANGED <<files, name, output_fh, buf, events>>
      BY <2>1 DEF handle_sigusr1
    <3> QED
      BY <2>0, <2>1, <3>1 DEF IInv, OutputType, FileInv
  <2>2. CASE output_fh # 0
    <3>1. reopenlog
      BY <2>2 DEF handle_sigusr1
    <3>2. /\ Flushed \in Seq(Seq(Nat)) /\ Len(Flushed) = Len(files)
          /\ FlattenSeq(Flushed) = filed /\ filed \o << >> = filed /\ durable <= Len(filed)
      BY FlushedIs
    <3>3. buf' = << >> /\ << >> \in Seq(Nat)
      BY <3>1, EmptySeq DEF reopenlog
    <3>4. CASE open_logfile(Flushed) /\ UNCHANGED events
      <4>1. /\ files' \in Seq(Seq(Nat)) /\ Len(files') > 0
            /\ name' \in {0, Len(files')} /\ output_fh' = Len(files')
            /\ FlattenSeq(files') = FlattenSeq(Flushed)
        BY <1>3, <3>2, <3>4, OpenKeeps
      <4>2. Len(files') \in Nat
        BY <4>1, LenProperties
      <4>3. /\ output_fh' \in 0 .. Len(files') /\ output_fh' # 0
            /\ \A f \in 1 .. Len(files') : ~ (f > output_fh')
        BY <4>1, <4>2
      <4> QED
        BY <2>0, <3>2, <3>3, <3>4, <4>1, <4>3
    <3>5. CASE /\ output_fh' = 0 /\ files' = Flushed /\ UNCHANGED name
               /\ events' = events \cup {"reopen failed"}
      <4>1. output_fh' \in 0 .. Len(files')
        <5>1. Len(Flushed) \in Nat
          BY <3>2, LenProperties
        <5>2. 0 \in 0 .. Len(Flushed)
          BY <5>1
        <5> QED
          BY <3>5, <5>2, Zenon
      <4> QED
        BY <1>3, <2>0, <3>2, <3>3, <3>5, <4>1
    <3> QED
      BY <3>1, <3>4, <3>5 DEF reopenlog
  <2> QED
    BY <2>1, <2>2
<1>5. SetupType' /\ ParseInv'
  BY <1>1, <1>2, <1>4 DEF IInv, SetupType, ParseInv
<1>6. OptionInv'
  BY <1>1, <1>2 DEF IInv, OptionInv, Started
<1>7. HeardInv'
  <2>1. Background(o)' = Background(o) /\ Full' = Full
    BY <1>1, <1>2 DEF Background, Full
  <2>2. /\ "open failed" \in events' <=> "open failed" \in events
        /\ "syslog used" \in events' <=> "syslog used" \in events
        /\ "reopen failed" \in events => "reopen failed" \in events'
    BY <1>4
  <2>3. EveryMessageHeard'
    BY <1>1, <1>4, <2>1 DEF IInv, HeardInv, EveryMessageHeard
  <2> QED
    BY <1>1, <1>2, <1>4, <2>1, <2>2, <2>3 DEF IInv, HeardInv
<1>8. LinesInv'
  BY <1>1, SameLines DEF IInv
<1>9. OutputType'
  BY <1>1, <1>4 DEF IInv, OutputType
<1>10. FileInv'
  BY <1>1, <1>4 DEF FileInv
<1> QED
  BY <1>5, <1>6, <1>7, <1>8, <1>9, <1>10 DEF IInv

LEMMA UnchangedKeeps ==
  ASSUME IInv, UNCHANGED <<setup, files, name, output_fh, buf, line, syslog, usr1, history>>,
         pc' = pc \/ (pc = "running" /\ pc' = "ended")
  PROVE  IInv'
<1>1. UNCHANGED <<cfg, args, pos, hlist, o, tty, sent, filed, given, unheard, durable, asked, events>>
  BY DEF setup, history
<1>2. SetupType'
  BY <1>1 DEF IInv, SetupType
<1>3. ParseInv'
  <2>1. /\ pc' = "config" => pc = "config"
        /\ pc' = "options" => pc = "options"
        /\ pc' = "args" => pc = "args"
    OBVIOUS
  <2> QED
    BY <1>1, <2>1 DEF IInv, ParseInv
<1>4. OptionInv'
  <2>1. /\ SaidByFile(pos)' = SaidByFile(pos) /\ SaidByUser(pos)' = SaidByUser(pos)
    BY <1>1 DEF SaidByFile, SaidByUser, Configured, About
  <2> QED
    BY <1>1, <2>1 DEF IInv, OptionInv, Started
<1>5. HeardInv'
  <2>1. Background(o)' = Background(o) /\ Full' = Full
    BY <1>1 DEF Background, Full
  <2> QED
    BY <1>1, <2>1 DEF IInv, HeardInv, EveryMessageHeard
<1>6. LinesInv' /\ OutputType' /\ FileInv'
  BY <1>1, SameLines DEF IInv, OutputType, FileInv
<1> QED
  BY <1>2, <1>3, <1>4, <1>5, <1>6 DEF IInv

LEMMA ExitKeeps ==
  ASSUME IInv, Exit
  PROVE  IInv'
<1>1. CASE files' = Flushed /\ buf' = << >>
  <2>1. durable \in Nat /\ durable <= Len(filed)
    BY FlushedIs DEF IInv, OutputType
  <2> QED
    BY <1>1, <2>1, FlushKeeps DEF Exit, history
<1>2. CASE UNCHANGED <<files, buf>>
  BY <1>2, UnchangedKeeps DEF Exit
<1> QED
  BY <1>1, <1>2 DEF Exit

-----------------------------------------------------------------------------
LEMMA NextKeeps == IInv /\ [Next]_vars => IInv'
<1> SUFFICES ASSUME IInv, [Next]_vars PROVE IInv'
  OBVIOUS
<1>1. CASE ReadLine
  BY <1>1, ReadLineKeeps
<1>2. CASE ConfigDone
  BY <1>2, ConfigDoneKeeps
<1>3. CASE ReadOption
  BY <1>3, ReadOptionKeeps
<1>4. CASE OptionsDone
  BY <1>4, OptionsDoneKeeps
<1>5. CASE Argument
  BY <1>5, ArgumentKeeps
<1>6. CASE ArgumentsDone
  BY <1>6, ArgumentsDoneKeeps
<1>7. CASE AsciiCommand
  BY <1>7, AsciiCommandKeeps
<1>8. CASE modifier_finish
  BY <1>8, ModifierFinishKeeps
<1>9. CASE Daemonize
  BY <1>9, DaemonizeKeeps
<1>10. CASE \E text \in WTexts : Message("Wprintf", text)
  <2>1. PICK text \in WTexts : Message("Wprintf", text)
    BY <1>10
  <2>2. text \in Seq({1, NL}) /\ "Wprintf" \in Kinds
    BY LogOutputAssumption DEF Kinds
  <2> QED
    BY <2>1, <2>2, MessageKeeps
<1>11. CASE \E kind \in Kinds \ {"Wprintf"} : Message(kind, <<1, NL>>)
  <2>1. PICK kind \in Kinds \ {"Wprintf"} : Message(kind, <<1, NL>>)
    BY <1>11
  <2>2. <<1, NL>> \in Seq({1, NL}) /\ kind \in Kinds
    OBVIOUS
  <2> QED
    BY <2>1, <2>2, MessageKeeps
<1>12. CASE StdioWrites
  BY <1>12, StdioWritesKeeps
<1>13. CASE EndRecord
  BY <1>13, EndRecordKeeps
<1>14. CASE Rotate
  BY <1>14, RotateKeeps
<1>15. CASE handle_sigusr1
  BY <1>15, Sigusr1Keeps
<1>16. CASE Exit
  BY <1>16, ExitKeeps
<1>17. CASE UNCHANGED vars
  BY <1>17, UnchangedKeeps DEF vars
<1> QED
  BY <1>1, <1>2, <1>3, <1>4, <1>5, <1>6, <1>7, <1>8, <1>9, <1>10, <1>11, <1>12, <1>13,
     <1>14, <1>15, <1>16, <1>17 DEF Next

(* The invariant of the options and the outputs: what was parsed is the file,
   the options follow what was said, and every text is in an output.       *)
THEOREM LogOutputInvariant == Spec => []IInv
BY InitIInv, NextKeeps, PTL DEF Spec

-----------------------------------------------------------------------------
(* The properties *)

(* For every configuration file and command line the lookup of config.c gives
   the first value of the file, and the user has the last word on syslog.  *)
THEOREM OptionsAlwaysAsGiven == Spec => []OptionsAsGiven
<1>1. IInv => OptionsAsGiven
  <2> SUFFICES ASSUME IInv PROVE LookupIsFirst /\ SyslogAsAsked
    BY DEF OptionsAsGiven
  <2>1. LookupIsFirst
    <3> SUFFICES ASSUME pc = "options", NEW header \in Sections, NEW n \in Names
                 PROVE  config_string(hlist, header, n) = FirstInFile(cfg, header, n)
      BY DEF LookupIsFirst
    <3>1. Parsed(hlist, cfg, Len(cfg))
      BY DEF IInv, ParseInv
    <3> QED
      BY <3>1, ParsedAll
  <2>2. SyslogAsAsked
    BY DEF IInv, OptionInv, HeardInv, SyslogAsAsked, Follows, SYSLOG_ALL
  <2> QED
    BY <2>1, <2>2
<1> QED
  BY <1>1, LogOutputInvariant, PTL

(* For every combination of options and failures to open or reopen the log
   file each message of msg.c reaches something, but for the three cases that
   EveryMessageHeard names: --no-syslog without a log file, decoded records
   when the file cannot be reopened, and a line buffer that is full.       *)
THEOREM EveryMessageAlwaysHeard == Spec => []EveryMessageHeard
<1>1. IInv => EveryMessageHeard
  BY DEF IInv, HeardInv
<1> QED
  BY <1>1, LogOutputInvariant, PTL

(* vlinesyslog never leaves its buffer, whatever its size, and keeps every
   text in its place: a text is cut only at its end, where the buffer is full. *)
THEOREM SyslogAlwaysComplete == Spec => []SyslogComplete
<1>1. IInv => SyslogComplete
  <2> SUFFICES ASSUME IInv PROVE TypeOK /\ LinesKept
    BY DEF SyslogComplete
  <2>1. TypeOK
    <3>1. name \in 0 .. Len(files)
      <4>1. Len(files) \in Nat
        BY LenProperties DEF IInv, OutputType
      <4> QED
        BY <4>1 DEF IInv, OutputType
    <3>2. /\ o.syslog_opt \subseteq SYSLOG_ALL \cup {"FORCE"}
          /\ o.syslog_level \in {"warning", "err"}
          /\ \A flag \in {"daemon_mode", "foreground", "logfile", "ascii", "dead"} :
               o[flag] \in BOOLEAN
      BY DEF IInv, SetupType, OptionType
    <3> QED
      BY <3>1, <3>2 DEF TypeOK, IInv, SetupType, OutputType
  <2> QED
    BY <2>1 DEF IInv, LinesInv
<1> QED
  BY <1>1, LogOutputInvariant, PTL

(* However often the log file is rotated and however the daemon ends, the log
   files hold what was printed without gaps, and every record that was logged.*)
THEOREM LogAlwaysComplete == Spec => []LogComplete
<1>1. IInv => LogComplete
  <2> SUFFICES ASSUME IInv PROVE LogComplete
    OBVIOUS
  <2> DEFINE written == FlattenSeq(files)
  <2>1. /\ files \in Seq(Seq(Nat)) /\ Len(files) > 0 /\ buf \in Seq(Nat)
        /\ written \o buf = filed /\ durable <= Len(written) /\ durable \in Nat
    BY DEF IInv, OutputType, FileInv
  <2>2. written \in Seq(Nat)
    BY <2>1, FlattenType
  <2> HIDE DEF written
  <2>3. Len(written) \in Nat /\ Len(buf) \in Nat /\ Len(filed) = Len(written) + Len(buf)
    BY <2>1, <2>2, LenProperties, ConcatProperties
  <2>4. SubSeq(written, 1, Len(written)) = SubSeq(filed, 1, Len(written))
    <3>1. CASE Len(written) = 0
      BY <3>1, SubSeqEmpty
    <3>2. CASE Len(written) # 0
      <4>1. 1 \in 1 .. Len(written) /\ Len(written) \in 1 .. Len(written)
        BY <2>3, <3>2
      <4>2. SubSeq(written \o buf, 1, Len(written)) = SubSeq(written, 1, Len(written))
        BY <2>1, <2>2, <4>1, SubSeqOfConcat1
      <4> QED
        BY <2>1, <4>2
    <3> QED
      BY <3>1, <3>2
  <2>5. IsPrefix(written, filed)
    BY <2>3, <2>4 DEF IsPrefix
  <2>6. Len(written) >= durable
    BY <2>1, <2>3
  <2> QED
    BY <2>1, <2>5, <2>6 DEF LogComplete, written
<1> QED
  BY <1>1, LogOutputInvariant, PTL
=============================================================================
