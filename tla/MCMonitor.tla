------------------------------ MODULE MCMonitor ------------------------------
(* Monitor for TLC: the messages printed. *)
EXTENDS Monitor
Item(conv, arg) == [conv |-> conv, flags |-> {}, width |-> -1, prec |-> -1, arg |-> arg]
Wide(conv, arg) == [conv |-> conv, flags |-> {"LEFT"}, width |-> 2, prec |-> -1, arg |-> arg]
MCMessages == {
  [fn |-> "printf", format |-> <<Item("c", "a"), Item("literal", "NL")>>],
  [fn |-> "printf", format |-> <<Item("literal", "TAB"), Wide("d", 5)>>],
  [fn |-> "printf_color", format |-> <<Item("s", <<"BS", "b", "BS">>)>>],
  [fn |-> "printf_color", format |-> <<Item("x", 10), Item("literal", "CR"), Item("literal", "q")>>]}
=============================================================================
