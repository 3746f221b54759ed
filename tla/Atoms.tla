------------------------------- MODULE Atoms -------------------------------
(***************************************************************************)
(* The atoms of a message and what pd::Message (src/pd/message/mod.rs,     *)
(* atom.rs) says of them.  A message is a sequence of atoms: its time is   *)
(* kept beside it where a module needs it.  A float is an integer.  Words  *)
(* of a patch file are atoms too: <<"$", n>> is a word that holds only the *)
(* argument n, <<"$", n, s>> one that goes on with s.  Indices are those   *)
(* of the code plus one.                                                   *)
(***************************************************************************)
EXTENDS Integers, Sequences, TLC

Float(x) == <<"float", x>>
Symbol(s) == <<"symbol", s>>
Bang == <<"bang">>
Anything == <<"anything">>
List == <<"list">>
Dollar(n) == <<"$", n>>
DollarName(n, s) == <<"$", n, s>>

get_type(m, i) == IF i \in DOMAIN m THEN m[i][1] ELSE "anything"

is_float(m, i) == get_type(m, i) = "float"
is_symbol(m, i) == get_type(m, i) = "symbol"
is_bang(m, i) == get_type(m, i) = "bang"
is_symbol_str(m, i, s) == is_symbol(m, i) /\ m[i][2] = s

get_float(m, i) == m[i][2]
get_symbol(m, i) == m[i][2]

\* a float where there is one
float_or(m, i, default) == IF is_float(m, i) THEN get_float(m, i) ELSE default

atom_is_equal_to(m, i, atom) == i \in DOMAIN m /\ m[i] = atom

resolve_symbol(s) ==
  CASE s \in {"symbol", "s"} -> Symbol(s)
    [] s \in {"bang", "b"} -> Bang
    [] s \in {"float", "f"} -> Float(0)
    [] s \in {"list", "l"} -> List
    [] OTHER -> Anything

resolve_symbols_to_type(m) ==
  [i \in DOMAIN m |-> IF is_symbol(m, i) THEN resolve_symbol(get_symbol(m, i)) ELSE m[i]]

(***************************************************************************)
(* A text is a sequence of words.  from_string cuts it at the string " ;", *)
(* which holds a space and a semicolon, and so at no place where words     *)
(* meet: a text of several words, or one with a space or a semicolon       *)
(* behind it, is one symbol.  No text at all is a bang.                    *)
(***************************************************************************)
from_string(words) ==
  CASE words = << >> -> <<Bang>>
    [] Len(words) = 1 -> words
    [] OTHER -> <<Symbol(ToString(words))>>

\* resolve_string of the words against the arguments; one that is missing is an error
Resolved(word, argument) ==
  IF Len(word) = 2 THEN argument ELSE Symbol(ToString(<<argument[2], word[3]>>))

resolve_string(words, arguments) ==
  [i \in DOMAIN words |-> IF get_type(words, i) = "$" THEN Resolved(words[i], arguments[words[i][2]])
                          ELSE words[i]]
=============================================================================
