----------------------------- MODULE MCChannels -----------------------------
(***************************************************************************)
(* An instance of Channels: a request to one person and one that is open,  *)
(* on two channels, and the inboxes of two people.                         *)
(***************************************************************************)
EXTENDS Channels

Routes == [advise |-> [channel |-> "line", to |-> "ann", interaction |-> "advice"],
           approve |-> [channel |-> "desk", to |-> None, interaction |-> "approval"]]

Do(op, ask, actor) == [op |-> op, ask |-> ask, actor |-> actor]
People == {Do("reply", "advise", "ann"), Do("reply", "approve", "bob"), Do("reply", "approve", "ann"),
           Do("ack", "approve", "ann"), Do("ack", "advise", "ann")}

Ann == [actor |-> "ann", channel |-> None, interactions |-> {"advice", "approval"}]
Bob == [actor |-> "bob", channel |-> "desk", interactions |-> {"approval"}]
Inboxes == {Ann, Bob}

World(transport, sent, people, readers, crashes, losses) ==
    [transport |-> transport, sent |-> sent, people |-> people, readers |-> readers,
     faults |-> crashes, damage |-> losses]
Few == {Do("reply", "approve", "bob"), Do("ack", "approve", "ann")}
Sampled ==
    {World("mailbox", <<>>, People, {}, 1, 0), World("mailbox", <<"advise">>, Few, {Ann}, 0, 1),
     World("mailbox", <<"advise", "approve">>, Few, {Ann}, 0, 1),
     World("mailbox", <<"approve">>, {Do("reply", "approve", "bob")}, {Bob}, 0, 2),
     World("mailbox", <<"approve">>, Few, {Ann}, 1, 0), World("in_process", <<>>, Few, {Ann}, 0, 0)}
=============================================================================
