------------------------------- MODULE EdgeTerms -------------------------------
(***************************************************************************)
(* Constructors for the edges and comparisons Router.tla interprets: how   *)
(* the graphs of this project are written down.                            *)
(***************************************************************************)

Always(to) == [to |-> to, kind |-> "always", all |-> {}]
When(to, atoms) == [to |-> to, kind |-> "when", all |-> atoms]
Never(to) == [to |-> to, kind |-> "never", all |-> {}]

Is(f, v)    == [field |-> f, op |-> "==", lit |-> v]
IsNot(f, v) == [field |-> f, op |-> "!=", lit |-> v]
Above(f, v) == [field |-> f, op |-> ">",  lit |-> v]
AtMost(f, v) == [field |-> f, op |-> "<=", lit |-> v]
================================================================================
