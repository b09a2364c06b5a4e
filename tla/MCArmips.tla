------------------------------ MODULE MCArmips ------------------------------
(* Every script of up to three pieces: guards, labels used before and after *)
(* they are defined, positions that depend on them, objects that refer to   *)
(* labels and to themselves, areas that are filled and areas that overflow. *)
EXTENDS Armips

MCLabels == {"A", "B", "f"}

Sections == <<[size |-> 8, align |-> 4], [size |-> 4, align |-> 8]>>
Function == Object(Sections, [l \in {"f"} |-> [section |-> 2, offset |-> 0]],
                   {"B"}, TRUE)
Data     == Object(Sections, << >>, {"A"}, FALSE)

Pieces ==
    {Ifndef("A", DefineLabel("A", Num(2))),
     DefineLabel("A", Label("org()")),
     DefineLabel("A", Exp("B", "0", 1)),
     DefineLabel("B", Exp("orga()", "A", 0)),
     DefineLabel("B", Exp("org()", "0", 4)),
     Org(Label("A")),
     Orga(Label("B")),
     HeaderSize(Exp("0", "orga()", 0)),
     HeaderSize(Label("A")),
     ImportObj(Function),
     Align(4),
     Word(<<Label("A"), Label("f")>>),
     Jal("f"),
     Area(12, ImportObj(Data)),
     Area(24, ImportObj(Data) \o Word(<<Label("B")>>))}

Concatenations == {<< >>} \cup Pieces \cup {s \o t : s, t \in Pieces}
                    \cup {s \o t \o u : s, t, u \in Pieces}

Wellformed(s) ==
    \A i, j \in 1 .. Len(s) :
        i < j /\ s[i].op = s[j].op =>
            /\ s[i].op = "importobj" =>
                  DOMAIN s[i].object.symbols \cap DOMAIN s[j].object.symbols = {}
            /\ s[i].op = "jal" =>
                  \E k \in i .. j : s[k].op \in {"org", "orga"}

MCScripts == {s \in Concatenations : Wellformed(s)}

ASSUME MCAreasPlain == AreasPlain
=============================================================================
