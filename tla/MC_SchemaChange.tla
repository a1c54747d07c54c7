-------------------------- MODULE MC_SchemaChange --------------------------
EXTENDS SchemaChange, TLC

\* Clients differ only by name.
Symmetry == Permutations(Clients)

\* A table with a struct, its field and a plain column, and a second table.
SomeTables ==
    {Table(1, {Column(1, 1, "struct", None, 0), Column(2, 1, "int", 1, 0),
               Column(3, 2, "int", None, 0)}),
     Table(2, {Column(1, 1, "int", None, 0)})}

Payload(kind, tables, changes) ==
    [kind |-> kind, tables |-> tables, changes |-> changes, comment |-> None]

\* What a client may send about the columns 1, 2 and 3 of a table it read.
SomeRequests(read) ==
    LET table == CHOOSE r \in read : r.table = 1
        columns == table.columns
        id == 1 + (CHOOSE i \in {c.id : c \in columns} \cup {0} :
                     \A c \in columns : c.id <= i)
        new == Column(id, 3, "int", None, 0)
        field == Column(id, 3, "int", 1, 0)
        add(changes) == Payload("AddColumns", {1}, changes)
        column(kind, changes) == Payload(kind, {1}, changes)
        plain == {c \in columns : c.id = 3}
        struct == {c \in columns : c.id = 1}
        nested == {c \in columns : c.id = 2}
        renamed(c, n) == [c EXCEPT !.name = n]
        defaulted(c) == [c EXCEPT !.default = 1]
        retyped(c) == [c EXCEPT !.type = "big", !.default = 1]
    IN  {add(<<new>>), column("DropColumns", <<[id |-> 1]>>),
         Payload("RenameTables", {1}, <<[id |-> 1, name |-> 3]>>),
         Payload("RenameTables", {1}, <<[id |-> 1, name |-> 2]>>),
         Payload("RenameTables", {1, 2}, <<[id |-> 1, name |-> 2], [id |-> 2, name |-> 1]>>),
         Payload("ChangeSortKeys", {1}, <<[id |-> 1, keys |-> <<1>>]>>)}
        \cup {add(<<field>>) : c \in struct}
        \cup UNION {{add(<<new, c>>), add(<<new, defaulted(c)>>), add(<<new, renamed(c, 4)>>),
                      add(<<new, renamed(c, 3)>>), add(<<defaulted(c)>>), add(<<renamed(c, 3)>>),
                      add(<<defaulted(renamed(c, 3))>>), add(<<retyped(c)>>),
                      column("RenameColumns", <<renamed(c, 3)>>),
                      column("ChangeColumnTypes", <<retyped(c)>>),
                      column("ChangeColumnDefaults", <<defaulted(c)>>),
                      [column("ChangeComments", <<[c EXCEPT !.comment = 1]>>)
                         EXCEPT !.comment = 1],
                      Payload("ChangePartitionKeys", {1, 2},
                              <<[row |-> "partition", id |-> 1],
                                [row |-> "partition_field", id |-> 1, column |-> 3],
                                [row |-> "partition", id |-> 2],
                                [row |-> "partition_field", id |-> 2, column |-> 1]>>)} : c \in plain}
        \cup {column("DropColumns", <<[id |-> 3]>>) : c \in {c \in plain : 3 \notin Range(table.partition)}}
        \cup {Payload("ChangePartitionKeys", {1}, <<[row |-> "partition", id |-> 1]>>) :
                 c \in {c \in plain : table.partition # <<>>}}
        \cup UNION {{column("RenameColumns", <<renamed(c, 2), renamed(d, 3)>>),
                      column("RenameColumns", <<renamed(d, 3), renamed(c, 2)>>)} :
                       c \in struct, d \in plain}
        \cup {column("ChangeColumnTypes", <<retyped(c)>>) : c \in struct \cup nested}
=============================================================================
