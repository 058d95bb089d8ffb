---------------------------- MODULE MCDescriptor ----------------------------
(* Who may send what, in the instance of Descriptor that TLC checks.       *)
EXTENDS Descriptor

CONSTANTS w, v,   \* clients that write
          x,      \* one that replaces
          r       \* one that reads

WhoDoesWhat ==
    [t \in Threads |-> IF t \in {w, v} THEN {"write"}
                       ELSE IF t = x THEN {"replace"} ELSE {"read"}]
OneMessage == <<1>>
=============================================================================
