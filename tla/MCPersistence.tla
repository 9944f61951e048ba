---------------------------- MODULE MCPersistence ----------------------------
(* Two items on four surfaces that between them have every class. *)
EXTENDS Persistence

MCItems == {"a", "b"}

MCSurfaces ==
    { [os |-> "linux",   class |-> [a |-> "account", b |-> "keys"]],
      [os |-> "linux",   class |-> [a |-> "hash",    b |-> "suid"]],
      [os |-> "windows", class |-> [a |-> "command", b |-> "listed"]],
      [os |-> "windows", class |-> [a |-> "startup", b |-> "listed"]] }
=============================================================================
