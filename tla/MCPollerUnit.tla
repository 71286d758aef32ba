------------------------------ MODULE MCPollerUnit ------------------------------
EXTENDS PollerUnit

Unit == [origin |-> "unit", confined |-> FALSE, python |-> "unset", file |-> "shared",
         keys |-> NoSecrets, numbers |-> "fine", bound |-> 0]
Shell == [Unit EXCEPT !.origin = "shell"]

(* The unit as it is installed, with a bound of two and with other         *)
(* numbers; shells: clean, of a worker, with a file, with keys of its own. *)
MCCallers == {
  Unit,
  [Unit EXCEPT !.bound = 2],
  [Unit EXCEPT !.numbers = "unreadable"], [Unit EXCEPT !.numbers = "refused"],
  Shell,
  [Shell EXCEPT !.confined = TRUE, !.python = "other"],
  [Shell EXCEPT !.file = "other"],
  [Shell EXCEPT !.keys = GoodSecrets, !.keys["SUPABASE_URL"] = "blank"],
  [Shell EXCEPT !.keys["LINEAR_API_KEY"] = "good"]}
=================================================================================
