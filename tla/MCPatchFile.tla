---------------------------- MODULE MCPatchFile ----------------------------
(***************************************************************************)
(* Patch files for TLC, one for each thing that may go wrong between a     *)
(* file, its abstractions, the graphs they become and the registries.      *)
(***************************************************************************)
EXTENDS PatchFile

Canvas == [op |-> "canvas"]
Obj(label, words) == [op |-> "obj", label |-> Symbol(label), init |-> words, x |-> 0]
Let(label, x) == [op |-> "obj", label |-> Symbol(label), init |-> << >>, x |-> x]
Named(label, name) == Obj(label, <<Symbol(name)>>)
Own(label, name) == Obj(label, <<DollarName(1, name)>>)
Restore == [op |-> "restore"]
Connect(from, outlet, to, inlet) ==
  [op |-> "connect", from |-> from, outlet |-> outlet, to |-> to, inlet |-> inlet]
Declare(full, names) == [op |-> "declare", path |-> <<full, names>>]
Array(name) == [op |-> "array", init |-> <<Symbol(name)>>]
A(index, values) == [op |-> "A", index |-> index, values |-> values]
More(values) == [op |-> "more", values |-> values]
Box(kind) == [op |-> kind]

File(lines) == [lines |-> lines, open |-> FALSE]
Scenario(roots, extras) ==
  [roots |-> roots, database |-> << >>, files |-> << >>, extras |-> extras, tables |-> << >>]

\* an oscillator through a subpatch to the output, and a number to both
Nested ==
  Scenario(<<File(<<Canvas, Obj("osc~", << >>), Canvas, Let("inlet~", 10), Let("outlet~", 10),
                    Connect(1, 1, 2, 1), Restore, Obj("dac~", << >>), Box("floatatom"),
                    Box("text"), Obj("print", << >>), Connect(1, 1, 2, 1), Connect(2, 1, 3, 1),
                    Connect(4, 1, 6, 1), Connect(4, 1, 1, 1), Connect(4, 1, 6, 1)>>)>>, {})

\* messages through a subpatch, and what plays a table and reports to it
Messages ==
  Scenario(<<File(<<Canvas, Box("floatatom"), Canvas, Let("inlet", 10), Let("outlet", 10),
                    Connect(1, 1, 2, 1), Restore, Box("symbolatom"), Named("tabplay~", "t"),
                    Connect(1, 1, 2, 1), Connect(2, 1, 3, 2), Connect(2, 1, 4, 1),
                    Connect(4, 2, 1, 1), Connect(1, 1, 3, 1), Connect(1, 3, 3, 1)>>)>>, {})

\* two inlets, of which a number is connected to the one for audio
Mismatch ==
  Scenario(<<File(<<Canvas, Box("floatatom"), Canvas, Let("inlet~", 10), Restore,
                    Obj("osc~", << >>), Connect(1, 1, 2, 1), Connect(3, 1, 2, 1)>>)>>, {})

\* two instances of an abstraction with a table and its readers
Voice ==
  File(<<Canvas, Own("table", "t"), Canvas, Own("tabread", "t"), Own("tabwrite", "u"), Restore,
         Obj("osc~", << >>), Let("outlet~", 30), Connect(3, 1, 4, 1)>>)
Instances ==
  [Scenario(<<File(<<Canvas, Obj("voice", << >>), Box("symbolatom"), Obj("voice", <<Float(5)>>),
                     Own("tabread", "t"), Obj("dac~", << >>), Connect(1, 1, 5, 1),
                     Connect(3, 1, 5, 1)>>)>>, {})
    EXCEPT !.database = Symbol("voice") :> Voice]

\* names that are arguments: of a kind, and of a table
Passed ==
  [Scenario(<<File(<<Canvas, Named("use", "tabread"), Obj("5", << >>)>>)>>, {})
    EXCEPT !.database = Symbol("use") :>
      File(<<Canvas, [op |-> "obj", label |-> Dollar(2), init |-> <<Dollar(2)>>, x |-> 0],
             [op |-> "obj", label |-> Symbol("5"), init |-> << >>, x |-> 0], Box("msg")>>)]

\* abstractions in directories: declared in a subpatch, beside the patch, further out, nowhere
Directories ==
  [Scenario(<<File(<<Canvas, Canvas, Declare(FALSE, <<"lib">>), Obj("deep", << >>), Restore,
                     Obj("deep", << >>), Obj("near", << >>), Obj("lost", << >>)>>)>>, {})
    EXCEPT !.files =
      (<<<<"patches", "lib">>, Symbol("deep")>> :> File(<<Canvas, Obj("print", << >>)>>) @@
       <<<<"patches">>, Symbol("near")>> :>
         File(<<Canvas, Obj("lost", << >>), Declare(TRUE, <<"far">>), Obj("lost", << >>),
                Obj("deep", << >>)>>) @@
       <<<<"far">>, Symbol("lost")>> :> File(<<Canvas, Box("text")>>))]

\* a path that is relative in an abstraction, and connections beyond the last object
Relative ==
  [Scenario(<<File(<<Canvas, Obj("near", << >>)>>)>>, {})
    EXCEPT !.database = Symbol("near") :> File(<<Canvas, Declare(FALSE, <<"lib">>)>>)]
Shifted ==
  Scenario(<<File(<<Canvas, Obj("lost", << >>), Box("floatatom"), Obj("print", << >>),
                    Connect(2, 1, 3, 1)>>)>>, {})

\* tables over several lines, one in a subpatch, and lines that belong to none
Arrays ==
  [Scenario(<<File(<<Canvas, A(1, <<9>>), Array("a"), A(1, <<1, 2>>), More(<<3>>), Box("coords"),
                     A(4, <<4>>), A(1, <<9, 9, 9, 9>>), Canvas, Array("b"), Restore,
                     A(3, <<7>>), More(<<8, 9>>)>>)>>, {})
    EXCEPT !.tables = [a |-> <<1, 2, 3, 4>>, b |-> <<0, 0, 7, 8>>]]

\* an empty line, with and without something behind it, and a last line without its newline
Lines ==
  Scenario(<<[lines |-> <<Canvas, Box("text"), Box("msg"), Box("text")>>, open |-> TRUE],
             File(<<Canvas, Box("text"), Box("symbolatom"), [op |-> "blank"], More(<< >>),
                    Box("text"),
                    [op |-> "blank"], Box("msg")>>)>>, {})

\* readers and what they read in two patches, and more of both
Meeting(extras) ==
  Scenario(<<File(<<Canvas, Named("tabread", "t"), Named("delread~", "d"), Named("throw~", "a"),
                    Canvas, Named("tabwrite", "t"), Restore>>),
             File(<<Canvas, Named("table", "t"), Named("delwrite~", "d"), Named("catch~", "a"),
                    Named("vd~", "d"), Named("tabread4~", "u")>>)>>, extras)
Throws ==
  Scenario(<<File(<<Canvas, Named("throw~", "a"), Named("receive~", "s")>>),
             File(<<Canvas, Named("catch~", "a"), Named("throw~", "b"), Named("tabread~", "t")>>)>>,
           {<<"catch~", "b">>, <<"throw~", "b">>, <<"table", "t">>})

\* receivers of messages and of audio
Remote ==
  Scenario(<<File(<<Canvas, Named("receive", "r"), Named("receive~", "s"), Named("tabplay~", "t")>>)>>,
           {<<"send~", "s">>, <<"receive", "r">>, <<"table", "t">>})

MCScenarios ==
  {Nested, Messages, Mismatch, Instances, Passed, Directories, Relative, Shifted, Arrays, Lines,
   Meeting({}), Meeting({<<"table", "u">>, <<"vd~", "d">>}), Throws, Remote}
=============================================================================
