------------------------------- MODULE MCLogs -------------------------------
(* Values of the constants of Logs for TLC. *)
EXTENDS Logs

Writes ==
  {[table |-> "attempt", action |-> "login", type |-> "warn", account |-> "u"],
   [table |-> "service", action |-> "login", type |-> "ok", account |-> "v"],
   [table |-> "service", action |-> "upload", type |-> "ok", account |-> "v"]}

Forms ==
  {[type |-> none, from |-> none, to |-> none],
   [type |-> "warn", from |-> none, to |-> none],
   [type |-> none, from |-> 0, to |-> 1]}

Logins == {h \in Writes : h.action = "login"}
Services == {h \in Writes : h.table = "service"}

All == [type |-> none, from |-> none, to |-> none]
Warnings == [type |-> "warn", from |-> none, to |-> none]

\* Every page walked through while entries are written and accounts removed; a page asked
\* for before the last one came; searches that overlap, with another page size; files.
Tours ==
  [kind : {"system", "login"}, filters : {{All}}, limits : {{1}}, exports : {FALSE}, removals : {1},
   writes : {Logins}, entries : {3}, asks : {3}, pending : {1}]
  \cup [kind : {"upload"}, filters : {{All}}, limits : {{1}}, exports : {FALSE}, removals : {0},
        writes : {Services}, entries : {3}, asks : {3}, pending : {1}]
  \cup [kind : {"login"}, filters : {{All}}, limits : {{1}}, exports : {FALSE}, removals : {0},
        writes : {Logins}, entries : {3}, asks : {3}, pending : {2}]
  \cup [kind : {"login"}, filters : {Forms}, limits : {{1, 2}}, exports : {FALSE}, removals : {0},
        writes : {Logins}, entries : {2}, asks : {3}, pending : {2}]
  \cup [kind : {"login"}, filters : {{All, Warnings}}, limits : {{1}}, exports : {TRUE}, removals : {0},
        writes : {Logins}, entries : {2}, asks : {2}, pending : {1}]

=============================================================================
