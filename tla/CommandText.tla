----------------------------- MODULE CommandText -----------------------------
(***************************************************************************)
(* From the text of a command to the call of its handler: normalize_scpi   *)
(* (scpi_parser.py), extract_args (param_parser.py) and their use in       *)
(* _dispatch_command.  All of it runs in the event loop without an await.  *)
(*                                                                         *)
(* A text is a sequence of character classes: the code treats two          *)
(* characters of a class alike.  "letter" is one that no number and no     *)
(* truth value contains, "digit" is the digit 1, "newline" is any white    *)
(* space but blank and tab.  Case is left out.                             *)
(***************************************************************************)
EXTENDS Naturals, Sequences, FiniteSets, SequencesExt

CONSTANTS
    Texts,         \* bound: what a client may send without a thought
    Orders,        \* bound: what a client that composes its commands means
    Signatures,    \* parameters of the handlers
    Postponements, \* is "from __future__ import annotations" in their module?
    None           \* no command, no call, no quote

Quotes  == {"double", "single"}
White   == {"blank", "newline"}
Chars   == Quotes \cup White \cup {"letter", "digit"}
Types   == {"ip", "int", "float", "bool", "str"}

\* What a client composes a command of: a value, in quotes that it does not
\* contain or bare where it needs none, and the gap before it.  The first gap
\* is any white space, as it ends the mnemonic; the others are blanks.
Words ==
    {w \in [gap   : Seq(White) \ {<< >>},
            quote : Quotes \cup {None},
            value : Seq(Chars)] :
        IF w.quote = None
        THEN w.value # << >> /\ \A k \in DOMAIN w.value :
                                  w.value[k] \notin Quotes \cup White
        ELSE \A k \in DOMAIN w.value : w.value[k] # w.quote}

\* A handler's first parameters are the IPs (param_parser.py:11).
ASSUME TextAssumption ==
    /\ Texts \subseteq Seq(Chars)
    /\ \A o \in Orders :
         /\ o.mnemonic \in Seq(Chars \ White) \ {<< >>}
         /\ o.words \in Seq(Words)
         /\ \A i \in 2..Len(o.words) : o.words[i].gap \in Seq({"blank"})
    /\ \A s \in Signatures : /\ s \in Seq([type : Types, optional : BOOLEAN])
                             /\ \E n \in 0..Len(s) : \A k \in DOMAIN s :
                                  s[k].type = "ip" <=> k <= n
    /\ Postponements \subseteq BOOLEAN
    /\ None \notin Quotes

VARIABLES
    text,     \* cmd_str
    meant,    \* history: the values its client meant, or None
    command,  \* mnemonic and args, or None
    call      \* what has become of it: the signature and the values

vars == <<text, meant, command, call>>

-----------------------------------------------------------------------------
(* scpi_parser.py                                                          *)

Strip(s) ==
    LET solid == {k \in DOMAIN s : s[k] \notin White}
    IN  IF solid = {} THEN << >> ELSE SubSeq(s, Min(solid), Max(solid))

Split0 == [args |-> << >>, current |-> << >>, quote |-> None]

\* Fault: every blank ends an argument, an empty one as well.
FlushAlways(st) == [st EXCEPT !.args = Append(@, st.current), !.current = << >>]

Flush(st) ==
    IF st.current = << >> THEN st
    ELSE [st EXCEPT !.args = Append(@, st.current), !.current = << >>]

\* Fault: a blank ends an argument inside quotes as well.
ScanBlankFirst(st, ch) ==
    IF ch = "blank" THEN Flush(st)
    ELSE [st EXCEPT !.current = Append(@, ch),
                    !.quote = IF @ = ch THEN None
                              ELSE IF @ = None /\ ch \in Quotes THEN ch ELSE @]

\* The body of the loop of _split_args.
Scan(st, ch) ==
    IF ch = "blank" /\ st.quote = None THEN Flush(st)
    ELSE [st EXCEPT !.current = Append(@, ch),
                    !.quote = IF @ = ch THEN None
                              ELSE IF @ = None /\ ch \in Quotes THEN ch ELSE @]

\* How far the loop is behind each character of s.
Scanning(s) ==
    LET st[k \in 0..Len(s)] == IF k = 0 THEN Split0 ELSE Scan(st[k - 1], s[k])
    IN  st

Scanned(s) == Scanning(s)[Len(s)]

SplitArgs(s) == Flush(Scanned(s)).args

Normalize(raw) ==
    LET s     == Strip(raw)
        white == {k \in DOMAIN s : s[k] \in White}
        end   == IF white = {} THEN Len(s) ELSE Min(white) - 1
    IN  [mnemonic |-> SubSeq(s, 1, end),
         args     |-> SplitArgs(Strip(SubSeq(s, end + 1, Len(s))))]

-----------------------------------------------------------------------------
(* param_parser.py                                                         *)

Value(type, s) == [type |-> type, text |-> s]
Error          == Value("error", << >>)
Default(p)     == Value("default", << >>)

\* Fault: two quotes alone are kept.
StripLongQuotes(s) ==
    IF Len(s) > 2 /\ s[1] \in Quotes /\ s[Len(s)] = s[1]
    THEN SubSeq(s, 2, Len(s) - 1) ELSE s

StripQuotes(s) ==
    IF Len(s) >= 2 /\ s[1] \in Quotes /\ s[Len(s)] = s[1]
    THEN SubSeq(s, 2, Len(s) - 1) ELSE s

Digits(s) == s # << >> /\ \A k \in DOMAIN s : s[k] = "digit"

\* The conversions are chosen by what the annotation is, and a postponed
\* annotation is a text: none of int, float and bool.
Convert(type, postponed, raw) ==
    CASE postponed \/ type = "str" -> Value("str", StripQuotes(raw))
      [] type = "bool"             -> IF Strip(raw) = <<"digit">>
                                      THEN Value("bool", raw) ELSE Error
      [] OTHER                     -> IF Digits(Strip(raw))
                                      THEN Value(type, raw) ELSE Error

\* One turn of the loop over the parameters that are not injected.
Extracted(p, i, postponed) ==
    IF i <= Len(command.args) THEN Convert(p.type, postponed, command.args[i])
    ELSE IF p.optional THEN Default(p) ELSE Error

\* Fault: the arguments are counted from the first parameter.
ScpiParamsAll(sig) == sig

\* injected_count: how many IPs the command requires.
Ips(sig) == Cardinality({k \in DOMAIN sig : sig[k].type = "ip"})

\* The parameters behind them.
ScpiParams(sig) == SubSeq(sig, Ips(sig) + 1, Len(sig))

\* injected + parsed
AllArgs(sig, postponed) ==
    LET params == ScpiParams(sig)
    IN  [i \in 1..Ips(sig) |-> Value("ip", << >>)]
        \o [i \in DOMAIN params |-> Extracted(params[i], i, postponed)]

-----------------------------------------------------------------------------
(* What a client sends.                                                    *)

\* Words, each behind its gap.
Spacing(gaps, words) ==
    LET upto[i \in 0..Len(words)] ==
          IF i = 0 THEN << >> ELSE upto[i - 1] \o gaps[i] \o words[i]
    IN  upto

Spaced(gaps, words) == Spacing(gaps, words)[Len(words)]

Quoted(w) ==
    IF w.quote = None THEN w.value ELSE <<w.quote>> \o w.value \o <<w.quote>>

TextOf(o) ==
    o.mnemonic \o Spaced([i \in DOMAIN o.words |-> o.words[i].gap],
                         [i \in DOMAIN o.words |-> Quoted(o.words[i])])

ValuesOf(o) == [i \in DOMAIN o.words |-> o.words[i].value]

\* A command that has been parsed, sent again with one blank for each gap.
Resent(cmd) ==
    cmd.mnemonic \o Spaced([i \in DOMAIN cmd.args |-> <<"blank">>], cmd.args)

-----------------------------------------------------------------------------
Init == text = << >> /\ meant = None /\ command = None /\ call = None

\* The dispatch loop has taken a command from the queue.
Receive ==
    /\ command = None /\ call = None
    /\ \/ text' \in Texts /\ meant' = None
       \/ \E o \in Orders : text' = TextOf(o) /\ meant' = ValuesOf(o)
    /\ command' = Normalize(text')
    /\ UNCHANGED call

\* An empty mnemonic is answered with an empty text.
Empty ==
    /\ command # None /\ command.mnemonic = << >>
    /\ command' = None /\ text' = << >> /\ meant' = None
    /\ UNCHANGED call

\* The handler that the registry has is called, or one of its parameters
\* makes an error, which is answered like that of an unknown mnemonic.
Call ==
    /\ command # None /\ command.mnemonic # << >> /\ call = None
    /\ \E sig \in Signatures, postponed \in Postponements :
         LET values == AllArgs(sig, postponed)
             bad    == \E i \in DOMAIN values : values[i] = Error
         IN  call' = [sig |-> sig, postponed |-> postponed, refused |-> bad,
                      values |-> IF bad THEN << >> ELSE values]
    /\ UNCHANGED <<text, meant, command>>

Answer ==
    /\ call # None
    /\ call' = None /\ command' = None
    /\ text' = << >> /\ meant' = None

Next == Receive \/ Empty \/ Call \/ Answer

Spec == Init /\ [][Next]_vars

-----------------------------------------------------------------------------
(* Properties                                                              *)

TypeOK ==
    /\ text \in Seq(Chars)
    /\ command = None \/ /\ command.mnemonic \in Seq(Chars)
                         /\ command.args \in Seq(Seq(Chars) \ {<< >>})
    /\ call = None \/ call.sig \in Signatures

\* What a client has quoted, or sent bare because nothing in it needs quotes,
\* reaches a handler that takes texts as the client meant it, value by value:
\* blanks and quotes of the other kind inside quotes are kept, an empty pair
\* of quotes is an empty value (tests/test_scpi_parser.py, TUTORIAL.md:245).
ValuesArrive ==
    command # None /\ meant # None =>
        /\ Len(command.args) = Len(meant)
        /\ \A k \in DOMAIN meant : StripQuotes(command.args[k]) = meant[k]

\* Whatever a client sends, an argument ends only where a quoted part of it
\* does not run on: every argument but the last closes what it opens, and to
\* send the mnemonic and the arguments again is to send the same command
\* ("preserving quoted substrings", scpi_parser.py:39).
QuotesWhole ==
    command # None =>
        LET args == command.args
        IN  /\ \A k \in 1..(Len(args) - 1) : Scanned(args[k]).quote = None
            /\ Normalize(Resent(command)) = command

\* A handler is called with one value for each of its parameters: the IPs
\* first, then the arguments in order, and defaults only behind the last
\* argument; a missing argument without a default is never made up, and no
\* argument is skipped ("processes only the remaining parameters",
\* param_parser.py:12).
CalledInPlace ==
    call # None /\ ~call.refused =>
        /\ Len(call.values) = Len(call.sig)
        /\ \A i \in DOMAIN call.sig :
             LET arg == i - Ips(call.sig) IN
             /\ call.sig[i].type = "ip" <=> call.values[i].type = "ip"
             /\ call.values[i].type = "default" =>
                  call.sig[i].optional /\ arg \notin 1..Len(command.args)
             /\ call.values[i].type \notin {"ip", "default"} =>
                  call.values[i].text \in
                      {command.args[arg], StripQuotes(command.args[arg])}
=============================================================================
