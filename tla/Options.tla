-------------------------------- MODULE Options --------------------------------
(***************************************************************************)
(* The command line parser (cmdline.c, which gengetopt generates from      *)
(* cmdline.ggo), as main calls it: cmdline_parser with override 0 and      *)
(* initialize 1.  TestCases goes on with what it has parsed.               *)
(*                                                                         *)
(* An element of the command line is what getopt_long makes of it: an      *)
(* option with the text behind it, or one of the other kinds.  The text of *)
(* a numeric option is abstracted to what strtol reads: the number at its  *)
(* beginning (0 if there is none, and for the empty text) and whether      *)
(* something follows it.                                                   *)
(*                                                                         *)
(* A definition named Faulty... is the one behind it with a single fault.  *)
(* No specification takes it: it shows what a property would detect.       *)
(***************************************************************************)
EXTENDS Integers, Sequences

CONSTANTS
  CommandLines,  (* the command lines to consider, sequences of elements   *)
  MaxInt         (* INT_MAX, of a two's complement int                     *)

IntOptions ==
  {"num_values", "partition_size", "partition_size_max", "allow_1_to_n",
   "allow_n_to_1", "iterations", "num_threads", "computations_per_element"}
StringOptions == {"mode", "send_pattern"}
OptionNames == IntOptions \cup StringOptions

Kinds == {"option",    \* one of OptionNames, with its value
          "help", "version",
          "unknown",   \* no such option, or one without its value
          "operand",   \* anything that is not an option
          "end"}       \* "--": what follows are operands

\* The C standard promises 16 bits.
ASSUME MaxIntAssumption == MaxInt \in Nat /\ MaxInt >= 32767

ASSUME CommandLinesAssumption ==
  \A l \in CommandLines :
    /\ Len(l) \in Nat /\ DOMAIN l = 1 .. Len(l)
    /\ \A n \in DOMAIN l :
         /\ l[n].kind \in Kinds
         /\ l[n].kind = "option" =>
              \/ l[n].name \in StringOptions
              \/ /\ l[n].name \in IntOptions
                 /\ l[n].value.number \in Int /\ l[n].value.rest \in BOOLEAN

VARIABLES
  line,    (* the command line, a constant                                 *)
  optind,  (* the element getopt_long looks at next                        *)
  args,    (* args_info->..._arg                                           *)
  given,   (* args_info->..._given                                         *)
  seen,    (* local_args_info..._given                                     *)
  orig,    (* args_info->..._orig                                          *)
  pc       (* where the program is                                         *)

parser == <<line, optind, args, given, seen, orig>>

Defaults ==
  [o \in OptionNames |->
     CASE o = "mode" -> "Send"
       [] o = "num_values" -> 4096
       [] o = "partition_size" -> 100
       [] o = "partition_size_max" -> 0
       [] o = "allow_1_to_n" -> 0
       [] o = "allow_n_to_1" -> 0
       [] o = "iterations" -> 100
       [] o = "send_pattern" -> "Linear"
       [] o = "num_threads" -> 1
       [] o = "computations_per_element" -> 1000]

NotGiven == [o \in OptionNames |-> 0]
NoText == <<>>    (* the null pointer of an ..._orig                       *)

ParserInit ==
  /\ line \in CommandLines
  /\ optind = 1
  /\ args = Defaults
  /\ given = NotGiven /\ seen = NotGiven
  /\ orig = [o \in OptionNames |-> NoText]
  /\ pc = "parse"

\* The number of values of an int.
IntRange == 2 * MaxInt + 2

\* External: a long that is stored in an int keeps its lowest bits.
ToInt(n) == ((n + MaxInt + 1) % IntRange) - MaxInt - 1

Item == line[optind]
Take(kind) ==
  /\ pc = "parse"
  /\ optind <= Len(line) /\ Item.kind = kind
  /\ optind' = optind + 1

\* goto failure, and the exit in cmdline_parser2.
Fail == pc' = "failed"

-------------------------------------------------------------------------------
(* update_arg.                                                             *)

FaultyRepeated == seen[Item.name] > 1

\* The option was on this command line already.
Repeated == seen[Item.name] > 0

RepeatedOption ==
  /\ Take("option") /\ Repeated
  /\ Fail
  /\ UNCHANGED <<line, args, given, seen, orig>>

\* An option that was in args_info before is not overridden, without a word.
Kept == given[Item.name] > 0

FaultyStore(value) ==
  /\ seen' = seen
  /\ given' = [given EXCEPT ![Item.name] = @ + 1]
  /\ args' = [args EXCEPT ![Item.name] = value]

Store(value) ==
  /\ seen' = [seen EXCEPT ![Item.name] = @ + 1]
  /\ given' = [given EXCEPT ![Item.name] = @ + 1]
  /\ args' = [args EXCEPT ![Item.name] = value]

StoreText == orig' = [orig EXCEPT ![Item.name] = <<Item.value>>]

StringOption ==
  /\ Take("option") /\ Item.name \in StringOptions /\ ~Repeated
  /\ IF Kept THEN UNCHANGED <<args, given, seen, orig>>
     ELSE Store(Item.value) /\ StoreText
  /\ UNCHANGED <<line, pc>>

IntOption ==
  /\ Take("option") /\ Item.name \in IntOptions /\ ~Repeated
  /\ Kept \/ ~Item.value.rest
  /\ IF Kept THEN UNCHANGED <<args, given, seen, orig>>
     ELSE Store(ToInt(Item.value.number)) /\ StoreText
  /\ UNCHANGED <<line, pc>>

\* "invalid numeric value": the field has been written by then.
InvalidNumber ==
  /\ Take("option") /\ Item.name \in IntOptions /\ ~Repeated
  /\ ~Kept /\ Item.value.rest
  /\ Store(ToInt(Item.value.number))
  /\ Fail
  /\ UNCHANGED <<line, orig>>

-------------------------------------------------------------------------------
(* The loop around getopt_long.                                            *)

\* Print help or the version, and exit.
HelpOrVersion ==
  /\ Take("help") \/ Take("version")
  /\ pc' = "informed"
  /\ UNCHANGED <<line, args, given, seen, orig>>

InvalidOption ==
  /\ Take("unknown")
  /\ Fail
  /\ UNCHANGED <<line, args, given, seen, orig>>

\* External: getopt_long moves operands behind the options; nobody reads them.
Operand ==
  /\ Take("operand")
  /\ UNCHANGED <<line, args, given, seen, orig, pc>>

EndOfOptions ==
  /\ pc = "parse"
  /\ optind <= Len(line) => Item.kind = "end"
  /\ pc' = "parsed"
  /\ UNCHANGED parser

Parser ==
  \/ RepeatedOption \/ StringOption \/ IntOption \/ InvalidNumber
  \/ HelpOrVersion \/ InvalidOption \/ Operand \/ EndOfOptions

-------------------------------------------------------------------------------
(* Properties.                                                             *)

\* Elements in front of the first "--", and those that name option o.
Parsed == {n \in DOMAIN line : \A m \in 1..n : line[m].kind # "end"}
Naming(o) == {n \in Parsed : line[n].kind = "option" /\ line[n].name = o}

\* Elements at which a parser has to stop: by an error, or to inform.
Erroneous ==
  {n \in Parsed :
     \/ line[n].kind = "unknown"
     \/ line[n].kind = "option" /\
          \/ \E m \in Naming(line[n].name) : m < n
          \/ line[n].name \in IntOptions /\ line[n].value.rest}
Informing == {n \in Parsed : line[n].kind \in {"help", "version"}}

First(S, T) == \E n \in S : \A m \in S \cup T : n <= m

\* An int that stands for the number: the number itself when it is an int.
StandsFor(v, n) ==
  /\ v \in -MaxInt - 1 .. MaxInt
  /\ (v - n) % IntRange = 0

(* The outcome depends on the whole command line and not on the order in   *)
(* which the parser comes across it, errors apart: it accepts if and only  *)
(* if nothing is wrong anywhere, and then each option has its one value,   *)
(* or its default, in args_info (cmdline.c:427 and :442: a second value is *)
(* an error, never dropped without a word).                                *)
ParsedAsGiven ==
  /\ pc = "failed" => First(Erroneous, Informing)
  /\ pc = "informed" => First(Informing, Erroneous)
  /\ pc \notin {"parse", "failed", "informed"} =>
       /\ Erroneous = {} /\ Informing = {}
       /\ \A o \in StringOptions :
            IF Naming(o) = {} THEN args[o] = Defaults[o]
            ELSE \A n \in Naming(o) : args[o] = line[n].value
       /\ \A o \in IntOptions :
            IF Naming(o) = {} THEN args[o] = Defaults[o]
            ELSE \A n \in Naming(o) : StandsFor(args[o], line[n].value.number)

(* The inductive invariant of the parser: what is in args_info is what the *)
(* elements taken so far say, none of which it should have stopped at.     *)
Past == 1 .. optind - 1

ParserInv ==
  /\ DOMAIN args = OptionNames
  /\ \A o \in IntOptions : args[o] \in Int
  /\ \A n \in Past : line[n].kind # "end"
  /\ pc = "failed" => First(Erroneous, Informing)
  /\ pc = "informed" => First(Informing, Erroneous)
  /\ pc \notin {"failed", "informed"} =>
       /\ Past \cap (Erroneous \cup Informing) = {}
       /\ \A o \in OptionNames :
            /\ Naming(o) \cap Past = {} => seen[o] = 0 /\ args[o] = Defaults[o]
            /\ \A n \in Naming(o) \cap Past :
                 /\ seen[o] > 0
                 /\ IF o \in StringOptions THEN args[o] = line[n].value
                    ELSE StandsFor(args[o], line[n].value.number)
  /\ pc \notin {"parse", "failed", "informed"} =>
       (optind <= Len(line) => Item.kind = "end")
===============================================================================
