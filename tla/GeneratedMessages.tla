------------------------- MODULE GeneratedMessages -------------------------
(* The generated messages of every wire line, by name: the client, login and   *)
(* world messages and the ones between the login and the account server.       *)
EXTENDS TLC

LOCAL CommonFile == INSTANCE CommonMessages
LOCAL LoginFile == INSTANCE LoginMessages
LOCAL WorldFile == INSTANCE WorldMessages
LOCAL VisibilityFile == INSTANCE VisibilityMessages
LOCAL AccountFile == INSTANCE AccountMessages

LOCAL Rows ==
  CommonFile!Common @@ LoginFile!Login @@ WorldFile!World @@ VisibilityFile!Visibility
    @@ AccountFile!Account

\* The row of a message, with the rows of its sub-messages in place of their names.
RECURSIVE Linked(_)
Linked(row) ==
  [row EXCEPT !.of = [f \in DOMAIN @ |-> IF @[f] = "" THEN @[f] ELSE Linked(Rows[@[f]])]]

Generated == [name \in DOMAIN Rows |-> Linked(Rows[name])]
============================================================================
