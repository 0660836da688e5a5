----------------------------- MODULE MCConfigMain -----------------------------
(***************************************************************************)
(* Model-checking instance of ConfigMain.                                  *)
(*                                                                         *)
(* Option strings: every string of length at most 3 over a letter, the    *)
(* two delimiters ' ' and ',' and "glob:".  That gives empty tokens,      *)
(* leading and trailing delimiters, "glob:" alone, at the end, before a   *)
(* delimiter, inside a word and twice.  '\n' is handled by the same       *)
(* branch as ','.  The pattern "a" matches a directory, a file with       *)
(* blank, comment and indented lines, and a file with a tab and a comma   *)
(* inside a line; "aa" matches a file and then one that cannot be opened. *)
(*                                                                         *)
(* Environments: up to two entries out of DNF1=a, DNF12=a, DNF_VAR_a=b=c,  *)
(* DNF_VAR_=a, DNF_VAR_a-b=a, DNF_VAR_DNF1=b and PATH; these sit on both *)
(* sides of eql_idx == 4, eql_idx > 8 and the strspn test, and two of     *)
(* them define the same name.                                              *)
(***************************************************************************)
EXTENDS ConfigMain

CONSTANTS d1, f1, f2, bad, vd1, vd2

MCChars == {"a", " ", ",", GLOB}
MCOptionStrings == SeqOf(MCChars, 3)

\* "dnf glob:/etc/dnf/protected.d/*.conf"
MCDefaultProtected == <<"a", " ", GLOB, "a">>

MCGlobMatch ==
  [pattern \in SeqOf(MCChars, 2) |->
     CASE pattern = <<"a">>      -> <<d1, f1, f2>>
       [] pattern = <<"a", "a">> -> <<f2, bad>>
       [] OTHER                  -> <<>>]

MCFileLines ==
  [p \in {f1, f2} |->
     IF p = f1 THEN << <<" ", "b", " ", "b", "\t">>, <<" ", "#", "b">>, <<>>, <<"#">> >>
     ELSE << <<"b", "#">>, <<"\t", "b", ",", "b">> >>]

MCVarDirs ==
  [dir \in {vd1} |->
     << [dname |-> <<".">>, opens |-> TRUE, lines |-> <<>>],
        [dname |-> <<".", ".">>, opens |-> TRUE, lines |-> <<>>],
        [dname |-> <<".", "a">>, opens |-> TRUE, lines |-> << <<"c">> >>],
        [dname |-> <<"D", "N", "F", "1">>, opens |-> TRUE, lines |-> << <<"c">>, <<"d">> >>],
        [dname |-> <<"b">>, opens |-> FALSE, lines |-> <<>>],
        [dname |-> <<"a">>, opens |-> TRUE, lines |-> <<>>] >>]

MCEnvEntries ==
  { <<"D", "N", "F", "1", "=", "a">>,
    <<"D", "N", "F", "1", "2", "=", "a">>,
    DNF_VAR_ \o <<"a", "=", "b", "=", "c">>,
    DNF_VAR_ \o <<"=", "a">>,
    DNF_VAR_ \o <<"a", "-", "b", "=", "a">>,
    DNF_VAR_ \o <<"D", "N", "F", "1", "=", "b">>,
    <<"P", "A", "T", "H">> }

MCEnvs == SeqOf(MCEnvEntries, 2)

\* byte strings: up to two of 2, 5, '.', '-', ' ', k and G, which give
\* fractions, -0, leading and trailing blanks, a unit after nothing, two
\* units, and 2G and 5G past INT_MAX
MCBytesStrings == SeqOf({"2", "5", ".", "-", " ", "k", "G"}, 2)

\* a percentage, one with a unit before the '%', no number, one out of
\* range, a negative one, and a byte count past INT_MAX
MCThrottleStrings ==
  {<<"5", "%">>, <<"5", "k", "%">>, <<"%">>, <<"1", "5", "0", "%">>,
   <<"-", "5", "%">>, <<"2", "G">>}

\* "<off>", a negative number after white space, no number, trailing text
MCLimitStrings ==
  {<<"<", "o", "f", "f", ">">>, <<" ", "-", "1">>, <<"x">>, <<"3", "k">>}

=============================================================================
