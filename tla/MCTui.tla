------------------------------- MODULE MCTui --------------------------------
(* The terminal UI with three sessions of one view, started, cancelled and  *)
(* replaced in any order, or with short texts, lists of two and a small     *)
(* tree: a directory, a hidden file and a file.                             *)
EXTENDS Tui, TLC

MCSettings == << <<"Text", "Boolean">>, <<"Enum">> >>
MCTree == "/" :> {"docs", ".h", "a"} @@ "docs" :> {}
=============================================================================
