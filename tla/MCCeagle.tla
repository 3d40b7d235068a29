------------------------------ MODULE MCCeagle ------------------------------
(***************************************************************************)
(* Command lines of up to two files of every kind. A file for the          *)
(* structural abstraction has four calls that lead to its error: three in  *)
(* main, and one in a function that main calls; the variable of the        *)
(* conditions is declared twice, and its first initial value contradicts   *)
(* the conditions of the first and of the third call in main.              *)
(***************************************************************************)
EXTENDS CeagleMain

Matching ==
  {"Elevator", "ECA", "Concurrency", "DeviceDrivers", "FloatsArray", "LargeLoop",
   "LdvMalloc", "NoNondet", "Float", "LargerUnroll", "ByteOperation", "ByteNaive",
   "ByteFalse", "GCD", "LOOP"}

AllFiles == [ext : {"c"}, context : Matching]
            \cup [ext : {"missing", "ll", "other"}, context : {"none"}]

Drivers == [ext : {"c"}, context : {"DeviceDrivers"}]

SomeOptions ==
  {NoOptions,
   [NoOptions EXCEPT !.need_context = FALSE],
   [NoOptions EXCEPT !.need_context = FALSE, !.advisor = "value"],
   [NoOptions EXCEPT !.need_context = FALSE, !.advisor = "cde", !.cde = "Elevator"],
   [NoOptions EXCEPT !.need_context = FALSE, !.advisor = "structural",
                     !.check_overflow = TRUE]}

Facts == {"x = 0", "x = 5", "x > 1", "x < 9", "x > 2", "y = 1", "y = 2", "y = 3", "z > 0",
          "and"}

Calls == [error |-> <<[caller |-> "init", conds |-> <<"z > 0">>]>>,
          init  |-> <<[caller |-> "main", conds |-> <<"y = 1", "x > 1">>],
                      [caller |-> "main", conds |-> <<"x < 9", "y = 2">>],
                      [caller |-> "main", conds |-> <<"x > 2", "y = 3">>]>>,
          main  |-> <<>>]

Values == <<"x = 0", "x = 5">>

Contradictions == {{"x = 0", "x > 1"}, {"x = 0", "x > 2"}, {"x = 0", "x = 5"}}
=============================================================================
