------------------------------ MODULE Protocol ------------------------------
(***************************************************************************)
(* The lines the server and a spectator exchange: what Emitter writes      *)
(* (shared/src/protocol/Emitter.cpp), what Parser reads                    *)
(* (shared/src/protocol/Parser.cpp), and how CommandFactory sorts what a   *)
(* spectator asks.                                                         *)
(*                                                                         *)
(* A line is a sequence of tokens, separated by blanks in the code.  A     *)
(* message is a record of a tag and the arguments of the struct of that    *)
(* tag in shared/include/protocol/Commands.hpp.  Writer and reader have    *)
(* one table each, copied from different functions: which fields, in which *)
(* order, in which form.                                                   *)
(***************************************************************************)
EXTENDS Integers, SequencesExt, FiniteSets

Token(form, v) == [form |-> form, val |-> v]
Message(tag, args) == [tag |-> tag, args |-> args]
NoArgs == [f \in {} |-> 0]
UnknownCommand == Message("unknown", NoArgs)

ResourceNames == <<"food", "linemate", "deraumere", "sibur", "mendiane", "phiras", "thystame">>

(* Forms of a field: a number, a number behind "#", a flag written as 0 or *)
(* 1, a word, the rest of the line, as many "#" numbers as follow, and, in *)
(* a reader only, the end of the line.                                     *)
Num(f)   == <<"num", f>>
Id(f)    == <<"id", f>>
Flag(f)  == <<"flag", f>>
Word(f)  == <<"word", f>>
Text(f)  == <<"text", f>>
Ids(f)   == <<"ids", f>>
End      == <<"end", "">>
Nums(fs) == [i \in DOMAIN fs |-> Num(fs[i])]

-----------------------------------------------------------------------------
(* Emitter.                                                                *)

EmittedByServer == [
    msz |-> Nums(<<"width", "height">>),
    bct |-> Nums(<<"x", "y">> \o ResourceNames),
    tna |-> <<Text("teamName")>>,
    pnw |-> <<Id("playerId")>> \o Nums(<<"x", "y", "orientation", "level">>) \o <<Text("teamName")>>,
    ppo |-> <<Id("playerId")>> \o Nums(<<"x", "y", "orientation">>),
    plv |-> <<Id("playerId"), Num("level")>>,
    pin |-> <<Id("playerId")>> \o Nums(<<"x", "y">> \o ResourceNames),
    pex |-> <<Id("playerId")>>,
    pbc |-> <<Id("playerId"), Text("message")>>,
    pic |-> Nums(<<"x", "y", "level">>) \o <<Ids("playerIds")>>,
    pie |-> Nums(<<"x", "y">>) \o <<Flag("incantationResult")>>,
    pfk |-> <<Id("playerId")>>,
    pdr |-> <<Id("playerId"), Num("resourceId")>>,
    pgt |-> <<Id("playerId"), Num("resourceId")>>,
    pdi |-> <<Id("playerId")>>,
    enw |-> <<Id("eggId"), Id("playerId")>> \o Nums(<<"x", "y">>),
    ebo |-> <<Id("eggId")>>,
    edi |-> <<Id("eggId")>>,
    sgt |-> <<Num("timeUnit")>>,
    sst |-> <<Num("timeUnit")>>,
    seg |-> <<Text("teamName")>>,
    smg |-> <<Text("message")>>,
    suc |-> <<>>,
    sbp |-> <<>>]

EmittedByClient == [
    msz |-> <<>>, mct |-> <<>>, tna |-> <<>>, sgt |-> <<>>,
    bct |-> Nums(<<"x", "y">>),
    ppo |-> <<Id("playerId")>>, plv |-> <<Id("playerId")>>, pin |-> <<Id("playerId")>>,
    sst |-> <<Num("timeUnit")>>]

\* The ids of a list are kept as size_t: below zero they become numbers no int holds.
IdOfList(n) == Token(IF n < 0 THEN "huge" ELSE "id", n)

Written(form, v) ==
    CASE form = "flag"              -> <<Token("num", IF v THEN 1 ELSE 0)>>
      [] form \in {"word", "text"}  -> [i \in DOMAIN v |-> Token("word", v[i])]
      [] form = "ids"               -> [i \in DOMAIN v |-> IdOfList(v[i])]
      [] OTHER                      -> <<Token(form, v)>>

\* Emitter::build; what it does not know it writes as "suc".
Build(table, m) ==
    IF m.tag \notin DOMAIN table THEN <<Token("word", "suc")>>
    ELSE LET fields == table[m.tag]
         IN <<Token("word", m.tag)>>
            \o FlattenSeq([i \in DOMAIN fields |-> Written(fields[i][1], m.args[fields[i][2]])])

-----------------------------------------------------------------------------
(* Parser.                                                                 *)

ParsedWorld == [
    msz |-> Nums(<<"width", "height">>),
    bct |-> Nums(<<"x", "y", "food", "linemate", "deraumere", "sibur", "mendiane", "phiras", "thystame">>),
    tna |-> <<Word("teamName")>>,
    pnw |-> <<Id("playerId")>> \o Nums(<<"x", "y", "orientation", "level">>) \o <<Word("teamName")>>,
    ppo |-> <<Id("playerId")>> \o Nums(<<"x", "y", "orientation">>),
    plv |-> <<Id("playerId"), Num("level")>>,
    pin |-> <<Id("playerId")>> \o Nums(<<"x", "y", "food", "linemate", "deraumere", "sibur",
                                         "mendiane", "phiras", "thystame">>),
    pex |-> <<Id("playerId")>>,
    pbc |-> <<Id("playerId"), Text("message")>>,
    pic |-> Nums(<<"x", "y", "level">>) \o <<Ids("playerIds")>>]

ParsedEvents == [
    pie |-> Nums(<<"x", "y">>) \o <<Flag("incantationResult")>>,
    pfk |-> <<Id("playerId")>>,
    pdr |-> <<Id("playerId"), Num("resourceId")>>, pgt |-> <<Id("playerId"), Num("resourceId")>>,
    pdi |-> <<Id("playerId")>>,
    enw |-> <<Id("eggId"), Id("playerId")>> \o Nums(<<"x", "y">>),
    ebo |-> <<Id("eggId")>>, edi |-> <<Id("eggId")>>,
    sgt |-> <<Num("timeUnit")>>, sst |-> <<Num("timeUnit")>>,
    seg |-> <<Word("teamName")>>, smg |-> <<Text("message")>>,
    suc |-> <<>>, sbp |-> <<>>]

ParsedFromServer == ParsedWorld @@ ParsedEvents

ParsedFromClient == [
    msz |-> <<End>>, mct |-> <<End>>, tna |-> <<End>>, sgt |-> <<End>>,
    bct |-> Nums(<<"x", "y">>) \o <<End>>,
    ppo |-> <<Id("playerId")>>, plv |-> <<Id("playerId")>>, pin |-> <<Id("playerId")>>,
    sst |-> <<Num("timeUnit")>>]

\* Whether the next token of the line has the form a field needs (extractHashId
\* and the extractions of the stream).
Readable(form, rest) ==
    CASE form = "end"              -> rest = <<>>
      [] form \in {"text", "ids"}  -> TRUE
      [] form = "word"             -> rest # <<>>
      [] form = "flag"             -> rest # <<>> /\ rest[1].form = "num" /\ rest[1].val \in {0, 1}
      [] OTHER                     -> rest # <<>> /\ rest[1].form = form

Values(tokens) == [i \in DOMAIN tokens |-> tokens[i].val]

\* How many tokens the field takes.
Extent(form, rest) ==
    CASE form = "end"  -> 0
      [] form = "text" -> Len(rest)
      [] form = "ids"  -> LET other == {i \in DOMAIN rest : rest[i].form # "id"}
                          IN IF other = {} THEN Len(rest) ELSE Min(other) - 1
      [] OTHER         -> 1

Taken(form, rest) ==
    LET these == Values(SubSeq(rest, 1, Extent(form, rest)))
    IN CASE form \in {"num", "id"} -> these[1]
         [] form = "flag"          -> these[1] = 1
         [] OTHER                  -> these

ReadField(r, field) ==
    IF ~r.ok \/ ~Readable(field[1], r.rest) THEN [r EXCEPT !.ok = FALSE]
    ELSE [ok   |-> TRUE,
          args |-> IF field = End THEN r.args
                   ELSE (field[2] :> Taken(field[1], r.rest)) @@ r.args,
          rest |-> SubSeq(r.rest, Extent(field[1], r.rest) + 1, Len(r.rest))]

\* Parser::parseServerCommand and ::parseClientCommand, by their dispatch table.
Parse(table, line) ==
    IF line = <<>> \/ Head(line).val \notin DOMAIN table THEN UnknownCommand
    ELSE LET r == FoldLeft(ReadField, [ok |-> TRUE, args |-> NoArgs, rest |-> Tail(line)],
                           table[Head(line).val])
         IN IF r.ok THEN Message(Head(line).val, r.args) ELSE UnknownCommand

-----------------------------------------------------------------------------
(* What one side writes and the other reads.                               *)

\* Messages of a tag whose arguments are all different from one another.
Sample(table, tag, words, base) ==
    LET fields == table[tag]
        value(i) == CASE fields[i][1] = "flag"             -> i % 2 = 1
                      [] fields[i][1] \in {"word", "text"} -> words
                      [] fields[i][1] = "ids"              -> [k \in 1 .. Len(words) |-> base + k]
                      [] OTHER                             -> base + i
    IN Message(tag, [f \in {fields[i][2] : i \in DOMAIN fields} |->
                       value(CHOOSE i \in DOMAIN fields : fields[i][2] = f)])

\* Of a team name only the first word arrives, of a list of ids those before the first
\* below zero; everything else arrives whole.
Arrives(m) ==
    CASE "teamName" \in DOMAIN m.args  -> [m EXCEPT !.args.teamName = SubSeq(@, 1, 1)]
      [] "playerIds" \in DOMAIN m.args ->
            [m EXCEPT !.args.playerIds = SubSeq(@, 1, Min({i \in DOMAIN @ : @[i] < 0} \cup {Len(@) + 1}) - 1)]
      [] OTHER -> m

Samples(table) ==
    {Sample(table, tag, words, base) : tag \in DOMAIN table, words \in {<<"red">>, <<"red", "blue">>}, base \in {-3, 5}}

AllArrive ==
    /\ \A m \in Samples(EmittedByServer) : Parse(ParsedFromServer, Build(EmittedByServer, m)) = Arrives(m)
    /\ \A m \in Samples(EmittedByClient) : Parse(ParsedFromClient, Build(EmittedByClient, m)) = m

=============================================================================
