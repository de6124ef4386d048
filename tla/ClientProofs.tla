---------------------------- MODULE ClientProofs ----------------------------
(***************************************************************************)
(* Client: its types, what it shows of the match, and the request it makes.*)
(***************************************************************************)
EXTENDS Client, SequenceTheorems, TLAPS

-----------------------------------------------------------------------------
(* The invariant *)

Actions == {"ACTION", "QUIT"}
Message ==
    [type : {"NOTHING", "INFORMATION", "CONFIGURATION", "SHOP", "STATS", "MESSAGE", "END",
             UNKNOWN}]
    \cup [type : {"UPDATE"}, static : BOOLEAN]

\* The messages that follow each other in the server's order.
Follows(a, b) ==
    \/ b = UnknownAction
    \/ a.type = "NOTHING" /\ b.type = "INFORMATION"
    \/ a.type = "INFORMATION" /\ b.type = "CONFIGURATION"
    \/ a.type = "CONFIGURATION" /\ b.type \in {"UPDATE", "SHOP", "STATS", "MESSAGE"}
    \/ a.type = "UPDATE" /\ b.type \in {"SHOP", "STATS", "MESSAGE"}
    \/ a.type \in {"UPDATE", "SHOP"} /\ b.type = "UPDATE" /\ ~b.static
    \/ a.type = "STATS" /\ b.type \in {"SHOP", "MESSAGE"}
    \/ a.type = "MESSAGE" /\ b.type = "END"

Chain(t, s) == \A k \in 1 .. Len(s) : Follows(IF k = 1 THEN t ELSE s[k - 1], s[k])
Newest(t, s) == IF s = <<>> THEN t ELSE s[Len(s)]

\* Frames are still drawn after this one.
Live == pc \in Before \cup {"poll", "drain"} \/ (pc = "render" /\ ~stop_flag)

\* The last message the main thread has taken, and those it has not.
Taken ==
    IF pc \in {"prelobby", "connect", "information"} THEN [type |-> "NOTHING"]
    ELSE IF pc \in {"lobby", "send", "configuration"} THEN [type |-> "INFORMATION"]
    ELSE IF last = UnknownAction THEN [type |-> "CONFIGURATION"]
    ELSE last
Ahead == recv_queue \o wire

\* What the server has sent when it is at a phase.
Sent(z) ==
    /\ phase = "handshake" => z.type = "NOTHING"
    /\ phase = "answer" => z.type = "INFORMATION"
    /\ phase = "initial" => z.type = "CONFIGURATION"
    /\ phase = "shop" => z.type \in {"CONFIGURATION", "UPDATE", "STATS"}
    /\ phase = "opening" => z.type \in {"CONFIGURATION", "SHOP"}
    /\ phase = "game" => z.type = "UPDATE"
    /\ phase = "stats" => z.type \in {"CONFIGURATION", "UPDATE"}
    /\ phase = "message" => z.type \in {"CONFIGURATION", "UPDATE", "STATS"}
    /\ phase = "end" => z.type = "MESSAGE"

OrderKept == Live => Chain(Taken, Ahead) /\ Sent(Newest(Taken, Ahead))

SeqTypes ==
    /\ actions \in Seq(Actions) /\ send_queue \in Seq(Actions) /\ sending \in Seq(Actions)
    /\ recv_queue \in Seq(Message) /\ wire \in Seq(Message) /\ last \in Message

Fresh ==
    /\ players = <<>> /\ obstacles = 0 /\ show_waiting_lobby
    /\ bomb_view = [exploding |-> FALSE, active |-> FALSE, dropped |-> FALSE]
    /\ ~shop_view /\ ~stats_view /\ ~fov_view /\ ~game_ended /\ is_alive

Stages ==
    /\ connection = "none" => pc \in {"prelobby", "connect", "done"}
    /\ pc \in {"prelobby", "connect"} => connection = "none"
    /\ connection \in {"closed", "reset"} => phase = "over"
    /\ killed => pc \in After
    /\ pc \in Before => recv_queue = <<>> /\ last = UnknownAction
    /\ pc \in Before => receiver = "none"
    /\ Live /\ last = UnknownAction => Fresh
    /\ last.type \in {"UPDATE", "SHOP", "STATS", "MESSAGE", "END", UNKNOWN}
    /\ Live => last.type # "END"

Aux == [type : {UNKNOWN, "CREATE", "JOIN"}, mapSelected : mapas \cup {None},
        matchName : MatchNames \cup partidas \cup {None},
        numTerrorist : NumberTexts \cup {0}, numCounterTerrorist : NumberTexts \cup {0},
        player_type : {UNKNOWN, "TERRORIST", "COUNTERTERRORIST"},
        skin : skinsTerrorist \cup skinsCounterTerrorist \cup {UNKNOWN}]
Ui == [operacion : {None, "CREATE", "JOIN"}, map : mapas \cup {None},
       matchName : MatchNames \cup {None},
       numTerrorist : NumberTexts \cup {0}, numCounter : NumberTexts \cup {0},
       partida : partidas \cup {None}, equipo : {None, "TERRORIST", "COUNTERTERRORIST"},
       typeSkin : skinsTerrorist \cup skinsCounterTerrorist \cup {None}]

\* The slots keep what info_aux says of the operation and the team in step with
\* the widgets.
FormsInv ==
    /\ window \in {"prelobby", "lobby", "none"} /\ fields \in BOOLEAN
    /\ ui \in Ui /\ ui.typeSkin \in Skins(ui.equipo) \cup {None}
    /\ info_aux \in Aux /\ info.type \in {UNKNOWN, "INIT", "CREATE", "JOIN"}
    /\ info_aux.type = IF ui.operacion = None THEN UNKNOWN ELSE ui.operacion
    /\ info_aux.player_type = IF ui.equipo = None THEN UNKNOWN ELSE ui.equipo

ThreadTypes ==
    /\ pc \in Process
    /\ stop_flag \in BOOLEAN
    /\ Len(sending) <= 1 /\ send_closed \in BOOLEAN /\ killed \in BOOLEAN
    /\ sender \in {"none", "pop", "send", "ended"}
    /\ receiver \in {"none", "receive", "ended"}
    /\ keep_running \subseteq {"sender", "receiver"}
    /\ connection \in {"none", "up", "closed", "reset"}
    /\ phase \in {"handshake", "answer", "initial", "shop", "opening", "game", "stats",
                  "message", "end", "over"}

ClientInv ==
    FormsInv /\ ViewTypeOK /\ ThreadTypes /\ SeqTypes /\ Stages /\ OrderKept

\* What the view shows after a message, rendered or not.
Shows(message) ==
    /\ message.type = "UPDATE" =>
         /\ ~missed => is_alive = (local_id \in DOMAIN players)
         /\ fov_view = is_alive
         /\ ~shop_view /\ ~stats_view /\ ~game_ended
    /\ message.type = "SHOP" =>
         shop_view /\ ~stats_view /\ is_alive /\ ~bomb_view.active /\ ~game_ended
    /\ message.type = "STATS" => stats_view /\ ~shop_view /\ ~game_ended
    /\ message.type = "MESSAGE" => game_ended /\ ~stats_view /\ ~shop_view

\* What it shows of a snapshot just taken.
HeldShown(update) ==
    /\ update.players \subseteq DOMAIN players
    /\ \A i \in DOMAIN players : players[i] = "view" =>
         \E j \in update.players : uint8(i) = uint8(j)
    /\ bomb_view.exploding \/ bomb_view.active \/ bomb_view.dropped => update.bombs.said # {}
    /\ "zero" \in update.bombs.said => bomb_view.exploding
    /\ "ticking" \in update.bombs.said => bomb_view.active
    /\ update.bombs.last # "none" => bomb_view.dropped = (update.bombs.last = "dropped")

\* The local player's entry, his two flags and what the snapshots held of him.
LocalInv ==
    /\ \A i \in DOMAIN players : players[i] = "NULL" => i = local_id /\ missed
    /\ fov_view => is_alive
    /\ fov_view /\ local_id \notin DOMAIN players => missed
    /\ is_alive /\ local_id \notin DOMAIN players => missed \/ local_player = "expected"
    /\ ~is_alive => local_player = "gone" /\ local_id \notin DOMAIN players
    /\ pc \in {"poll", "drain"} /\ local_player = "expected" => ~round_active
    /\ pc = "render" => stop_flag
    /\ pc = "crashed" => missed

ViewInv ==
    /\ LocalInv
    /\ \A update \in held : HeldShown(update)
    /\ pc \in Frame => Shows(last)

HistoryTypes == local_player \in {"expected", "held", "gone"} /\ missed \in BOOLEAN

-----------------------------------------------------------------------------
(* Sequences *)

LEMMA RangeIn ==
  ASSUME NEW S, NEW s \in Seq(S)
  PROVE  Range(s) \subseteq S
BY ElementOfSeq, LenProperties DEF Range

\* A message that moves from one queue to the other stays where it was in line.
LEMMA MoveHead ==
  ASSUME NEW S, NEW r \in Seq(S), NEW w \in Seq(S), w # <<>>
  PROVE  Append(r, Head(w)) \o Tail(w) = r \o w
<1>1. Head(w) \in S /\ Tail(w) \in Seq(S) /\ Len(Tail(w)) = Len(w) - 1
      /\ \A i \in 1 .. Len(Tail(w)) : Tail(w)[i] = w[i + 1]
  BY HeadTailProperties
<1>2. Append(r, Head(w)) \in Seq(S) /\ Len(Append(r, Head(w))) = Len(r) + 1
      /\ \A i \in 1 .. Len(r) : Append(r, Head(w))[i] = r[i]
      /\ Append(r, Head(w))[Len(r) + 1] = Head(w)
  BY <1>1, AppendProperties
<1>3. Len(r) \in Nat /\ Len(w) \in Nat \ {0} /\ Head(w) = w[1]
  BY EmptySeq, LenProperties
<1>4. \A i \in 1 .. Len(r) + Len(w) :
        (Append(r, Head(w)) \o Tail(w))[i] = (r \o w)[i]
  <2> TAKE i \in 1 .. Len(r) + Len(w)
  <2>1. (r \o w)[i] = IF i <= Len(r) THEN r[i] ELSE w[i - Len(r)]
    BY ConcatProperties
  <2>2. (Append(r, Head(w)) \o Tail(w))[i] =
          IF i <= Len(r) + 1 THEN Append(r, Head(w))[i] ELSE Tail(w)[i - (Len(r) + 1)]
    BY <1>1, <1>2, <1>3, ConcatProperties
  <2>3. CASE i <= Len(r)
    BY <1>2, <1>3, <2>1, <2>2, <2>3
  <2>4. CASE i = Len(r) + 1
    BY <1>2, <1>3, <2>1, <2>2, <2>4
  <2>5. CASE i > Len(r) + 1
    <3>1. i - (Len(r) + 1) \in 1 .. Len(Tail(w))
      BY <1>1, <1>3, <2>5
    <3> QED BY <1>1, <1>3, <2>1, <2>2, <2>5, <3>1
  <2> QED BY <1>3, <2>3, <2>4, <2>5
<1>5. /\ Append(r, Head(w)) \o Tail(w) \in Seq(S) /\ r \o w \in Seq(S)
      /\ Len(Append(r, Head(w)) \o Tail(w)) = Len(r) + Len(w)
      /\ Len(r \o w) = Len(r) + Len(w)
  BY <1>1, <1>2, <1>3, ConcatProperties
<1> QED BY <1>4, <1>5, SeqEqual

LEMMA AppendConcat ==
  ASSUME NEW S, NEW r \in Seq(S), NEW w \in Seq(S), NEW m \in S
  PROVE  r \o Append(w, m) = Append(r \o w, m)
<1>1. <<m>> \in Seq(S) /\ r \o w \in Seq(S)
  BY ConcatProperties
<1>2. Append(w, m) = w \o <<m>> /\ Append(r \o w, m) = (r \o w) \o <<m>>
  BY <1>1, AppendIsConcat
<1> QED BY <1>1, <1>2, ConcatAssociative

LEMMA TailConcat ==
  ASSUME NEW S, NEW r \in Seq(S), NEW w \in Seq(S), r # <<>>
  PROVE  /\ r \o w # <<>> /\ Head(r \o w) = Head(r)
         /\ Tail(r \o w) = Tail(r) \o w
<1>1. Len(r) \in Nat \ {0} /\ Len(w) \in Nat
  BY EmptySeq
<1>2. /\ r \o w \in Seq(S) /\ Len(r \o w) = Len(r) + Len(w)
      /\ \A i \in 1 .. Len(r) + Len(w) :
           (r \o w)[i] = IF i <= Len(r) THEN r[i] ELSE w[i - Len(r)]
  BY ConcatProperties
<1>3. r \o w # <<>>
  BY <1>1, <1>2, EmptySeq
<1>4. Head(r \o w) = Head(r)
  BY <1>1, <1>2
<1>5. /\ Tail(r) \in Seq(S) /\ Len(Tail(r)) = Len(r) - 1
      /\ \A i \in 1 .. Len(Tail(r)) : Tail(r)[i] = r[i + 1]
  BY HeadTailProperties
<1>6. /\ Tail(r \o w) \in Seq(S) /\ Len(Tail(r \o w)) = Len(r) + Len(w) - 1
      /\ \A i \in 1 .. Len(Tail(r \o w)) : Tail(r \o w)[i] = (r \o w)[i + 1]
  BY <1>2, <1>3, HeadTailProperties
<1>7. /\ Tail(r) \o w \in Seq(S) /\ Len(Tail(r) \o w) = Len(r) - 1 + Len(w)
      /\ \A i \in 1 .. Len(r) - 1 + Len(w) :
           (Tail(r) \o w)[i] = IF i <= Len(r) - 1 THEN Tail(r)[i] ELSE w[i - (Len(r) - 1)]
  BY <1>5, ConcatProperties
<1>8. \A i \in 1 .. Len(Tail(r \o w)) : Tail(r \o w)[i] = (Tail(r) \o w)[i]
  BY <1>1, <1>2, <1>5, <1>6, <1>7
<1> QED BY <1>1, <1>3, <1>4, <1>6, <1>7, <1>8, SeqEqual

-----------------------------------------------------------------------------
(* The order of messages *)

LEMMA ChainTail ==
  ASSUME NEW t, NEW s \in Seq(Message), s # <<>>, Chain(t, s)
  PROVE  /\ Follows(t, Head(s)) /\ Chain(Head(s), Tail(s))
         /\ Newest(Head(s), Tail(s)) = Newest(t, s)
<1>1. /\ Len(s) \in Nat \ {0} /\ Head(s) = s[1]
      /\ Tail(s) \in Seq(Message) /\ Len(Tail(s)) = Len(s) - 1
      /\ \A i \in 1 .. Len(Tail(s)) : Tail(s)[i] = s[i + 1]
  BY EmptySeq, HeadTailProperties
<1>2. Follows(t, Head(s))
  BY <1>1 DEF Chain
<1>3. Chain(Head(s), Tail(s))
  <2> SUFFICES ASSUME NEW k \in 1 .. Len(Tail(s))
               PROVE  Follows(IF k = 1 THEN Head(s) ELSE Tail(s)[k - 1], Tail(s)[k])
    BY DEF Chain
  <2>1. Follows(IF k + 1 = 1 THEN t ELSE s[(k + 1) - 1], s[k + 1])
    BY <1>1 DEF Chain
  <2>2. Tail(s)[k] = s[k + 1] /\ (k + 1) - 1 = k /\ k + 1 # 1
    BY <1>1
  <2>3. (IF k = 1 THEN Head(s) ELSE Tail(s)[k - 1]) = s[k]
    BY <1>1
  <2> QED BY <2>1, <2>2, <2>3
<1>4. Newest(Head(s), Tail(s)) = Newest(t, s)
  <2>1. CASE Tail(s) = <<>>
    <3>1. Len(s) = 1
      BY <1>1, <2>1, EmptySeq
    <3> QED BY <1>1, <2>1, <3>1 DEF Newest
  <2>2. CASE Tail(s) # <<>>
    <3>1. Len(Tail(s)) \in 1 .. Len(Tail(s))
      BY <1>1, <2>2, EmptySeq
    <3> QED BY <1>1, <2>2, <3>1 DEF Newest
  <2> QED BY <2>1, <2>2
<1> QED BY <1>2, <1>3, <1>4

LEMMA ChainAppend ==
  ASSUME NEW t, NEW s \in Seq(Message), NEW m \in Message,
         Chain(t, s), Follows(Newest(t, s), m)
  PROVE  Chain(t, Append(s, m)) /\ Newest(t, Append(s, m)) = m
<1>1. /\ Len(s) \in Nat /\ Append(s, m) # <<>> /\ Len(Append(s, m)) = Len(s) + 1
      /\ \A i \in 1 .. Len(s) : Append(s, m)[i] = s[i]
      /\ Append(s, m)[Len(s) + 1] = m
  BY AppendProperties, LenProperties
<1>2. ASSUME NEW k \in 1 .. Len(s) + 1
      PROVE  Follows(IF k = 1 THEN t ELSE Append(s, m)[k - 1], Append(s, m)[k])
  <2>1. CASE k <= Len(s)
    <3>1. Follows(IF k = 1 THEN t ELSE s[k - 1], s[k])
      BY <1>1, <2>1 DEF Chain
    <3>2. k # 1 => Append(s, m)[k - 1] = s[k - 1]
      BY <1>1, <2>1
    <3> QED BY <1>1, <2>1, <3>1, <3>2
  <2>2. CASE k = Len(s) + 1
    <3>1. (IF k = 1 THEN t ELSE Append(s, m)[k - 1]) = Newest(t, s)
      <4>1. CASE s = <<>>
        BY <2>2, <4>1 DEF Newest
      <4>2. CASE s # <<>>
        <5>1. Len(s) \in Nat \ {0}
          BY <4>2, EmptySeq
        <5> QED BY <1>1, <2>2, <4>2, <5>1 DEF Newest
      <4> QED BY <4>1, <4>2
    <3> QED BY <1>1, <2>2, <3>1
  <2> QED BY <1>1, <2>1, <2>2
<1> QED BY <1>1, <1>2 DEF Chain, Newest

LEMMA ChainPrefix ==
  ASSUME NEW t, NEW r \in Seq(Message), NEW w \in Seq(Message), Chain(t, r \o w)
  PROVE  Chain(t, r \o <<>>)
<1>1. /\ Len(r) \in Nat /\ Len(w) \in Nat /\ Len(r \o w) = Len(r) + Len(w)
      /\ \A i \in 1 .. Len(r) : (r \o w)[i] = r[i]
  BY ConcatProperties, LenProperties
<1>2. r \o <<>> = r
  BY ConcatEmptySeq
<1>3. ASSUME NEW k \in 1 .. Len(r)
      PROVE  Follows(IF k = 1 THEN t ELSE r[k - 1], r[k])
  <2>1. Follows(IF k = 1 THEN t ELSE (r \o w)[k - 1], (r \o w)[k])
    BY <1>1 DEF Chain
  <2>2. k # 1 => (r \o w)[k - 1] = r[k - 1]
    BY <1>1
  <2> QED BY <1>1, <2>1, <2>2
<1> QED BY <1>2, <1>3 DEF Chain

LEMMA Primed ==
  /\ Chain(Taken, Ahead)' = Chain(Taken', Ahead')
  /\ Newest(Taken, Ahead)' = Newest(Taken', Ahead')
BY DEF Chain, Newest, Follows

\* A step that takes no message and sends none.
LEMMA Quiet ==
  ASSUME OrderKept, UNCHANGED phase, Live' => Live, Live' => Taken' = Taken,
         Ahead' = Ahead
  PROVE  OrderKept'
BY DEF OrderKept, Sent

\* A step that takes the next message.
LEMMA Advance ==
  ASSUME SeqTypes, OrderKept, UNCHANGED phase, Live' => Live, Ahead # <<>>,
         Live' => Taken' = Head(Ahead), Ahead' = Tail(Ahead)
  PROVE  OrderKept'
<1> SUFFICES ASSUME Live'
             PROVE  Chain(Taken, Ahead)' /\ Sent(Newest(Taken, Ahead))'
  BY DEF OrderKept
<1>1. Ahead \in Seq(Message)
  BY ConcatProperties DEF SeqTypes, Ahead
<1>2. Chain(Taken, Ahead) /\ Sent(Newest(Taken, Ahead))
  BY DEF OrderKept
<1>3. Chain(Taken', Ahead') /\ Newest(Taken', Ahead') = Newest(Taken, Ahead)
  BY <1>1, <1>2, ChainTail
<1> QED BY <1>2, <1>3, Primed DEF Sent

\* A step that sends a message.
LEMMA Sending ==
  ASSUME SeqTypes, OrderKept, NEW m \in Message, Live' => Live, Live' => Taken' = Taken,
         Ahead' = Append(Ahead, m), Live => Follows(Newest(Taken, Ahead), m),
         Live => Sent(m)'
  PROVE  OrderKept'
<1> SUFFICES ASSUME Live'
             PROVE  Chain(Taken, Ahead)' /\ Sent(Newest(Taken, Ahead))'
  BY DEF OrderKept
<1>1. Ahead \in Seq(Message)
  BY ConcatProperties DEF SeqTypes, Ahead
<1>2. Chain(Taken, Ahead)
  BY DEF OrderKept
<1>3. Chain(Taken', Ahead') /\ Newest(Taken', Ahead') = m
  BY <1>1, <1>2, ChainAppend
<1> QED BY <1>3, Primed DEF Sent

LEMMA NewestType ==
  ASSUME SeqTypes
  PROVE  /\ Taken \in Message /\ Ahead \in Seq(Message)
         /\ Newest(Taken, Ahead) \in Message
<1>1. Taken \in Message
  BY DEF SeqTypes, Taken, Message
<1>2. Ahead \in Seq(Message)
  BY ConcatProperties DEF SeqTypes, Ahead
<1>3. CASE Ahead = <<>>
  BY <1>1, <1>2, <1>3 DEF Newest
<1>4. CASE Ahead # <<>>
  <2>1. Len(Ahead) \in 1 .. Len(Ahead)
    BY <1>2, <1>4, EmptySeq
  <2> QED BY <1>1, <1>2, <1>4, <2>1, ElementOfSeq DEF Newest
<1> QED BY <1>1, <1>2, <1>3, <1>4

-----------------------------------------------------------------------------
(* The invariant is inductive *)

LEMMA NoDomain == DOMAIN <<>> = {}
<1>1. <<>> \in Seq({}) /\ Len(<<>>) = 0
  BY EmptySeq
<1>2. DOMAIN <<>> = 1 .. 0
  BY <1>1, LenProperties
<1> QED BY <1>2

LEMMA ClientInit == Init => ClientInv
<1> SUFFICES ASSUME Init PROVE ClientInv
  OBVIOUS
<1>1. FormsInv
  BY DEF Init, FormsInit, FormsInv, Ui, Aux, EmptyUi, EmptyAux, NoInfo, None, UNKNOWN
<1>2. ViewTypeOK
  <2>1. DOMAIN players = {} /\ obstacles \in 0 .. 1
    BY NoDomain DEF Init, ViewInit
  <2>2. bomb_view \in [exploding : BOOLEAN, active : BOOLEAN, dropped : BOOLEAN]
    BY DEF Init, ViewInit
  <2>3. /\ shop_view \in BOOLEAN /\ stats_view \in BOOLEAN /\ fov_view \in BOOLEAN
        /\ show_waiting_lobby \in BOOLEAN /\ game_ended \in BOOLEAN /\ is_alive \in BOOLEAN
    BY DEF Init, ViewInit
  <2> QED BY <2>1, <2>2, <2>3 DEF ViewTypeOK
<1>3. ThreadTypes
  <2>1. Len(sending) = 0
    BY DEF Init
  <2>2. pc \in Process
    BY DEF Init, Process, Before
  <2>3. stop_flag \in BOOLEAN /\ send_closed \in BOOLEAN /\ killed \in BOOLEAN
    BY DEF Init
  <2> QED BY <2>1, <2>2, <2>3 DEF Init, ThreadTypes
<1>4. SeqTypes
  BY DEF Init, SeqTypes, UnknownAction, Message, UNKNOWN
<1>5. Fresh
  BY DEF Init, ViewInit, Fresh
<1>6. Stages
  BY <1>5 DEF Init, Stages, UnknownAction, UNKNOWN, Before
<1>7. OrderKept
  <2>1. Ahead = <<>> /\ Taken.type = "NOTHING"
    BY ConcatEmptySeq DEF Init, Ahead, Taken
  <2> QED BY <2>1 DEF Init, OrderKept, Chain, Newest, Sent
<1> QED BY <1>1, <1>2, <1>3, <1>4, <1>6, <1>7 DEF ClientInv

\* The user at the forms.
LEMMA SkinsOf == \A equipo : Skins(equipo) \subseteq skinsTerrorist \cup skinsCounterTerrorist
BY DEF Skins

LEMMA Slots ==
  ASSUME ui \in Ui, NEW aux \in Aux
  PROVE  /\ guardarMapa(aux) \in Aux /\ guardarNombrePartida(aux) \in Aux
         /\ guardarNumJugadores(aux) \in Aux /\ guardarPartidaElegida(aux) \in Aux
         /\ guardarTipoSkin(aux) \in Aux
<1>1. guardarMapa(aux) \in Aux /\ guardarNombrePartida(aux) \in Aux
  BY DEF guardarMapa, guardarNombrePartida, Aux, Ui
<1>2. guardarPartidaElegida(aux) \in Aux
  BY DEF guardarPartidaElegida, Aux, Ui
<1>3. guardarNumJugadores(aux) \in Aux
  <2>1. [aux EXCEPT !.numTerrorist = ui.numTerrorist] \in Aux
    BY DEF Aux, Ui
  <2>2. [[aux EXCEPT !.numTerrorist = ui.numTerrorist]
           EXCEPT !.numCounterTerrorist = ui.numCounter] \in Aux
    BY <2>1 DEF Aux, Ui
  <2>3. guardarNumJugadores(aux) =
          [[aux EXCEPT !.numTerrorist = ui.numTerrorist]
             EXCEPT !.numCounterTerrorist = ui.numCounter]
    BY DEF guardarNumJugadores
  <2> QED BY <2>2, <2>3
<1>4. guardarTipoSkin(aux) \in Aux
  <2>1. (IF ui.typeSkin = None THEN UNKNOWN ELSE ui.typeSkin)
          \in skinsTerrorist \cup skinsCounterTerrorist \cup {UNKNOWN}
    BY DEF Ui
  <2> QED BY <2>1 DEF guardarTipoSkin, Aux
<1> QED BY <1>1, <1>2, <1>3, <1>4

LEMMA Reading ==
  ASSUME FormsInv, NEW aux, aux = Read(info_aux)
  PROVE  /\ aux \in Aux
         /\ aux.type = info_aux.type /\ aux.player_type = info_aux.player_type
         /\ aux.skin = (IF ui.typeSkin = None THEN UNKNOWN ELSE ui.typeSkin)
         /\ aux.type = "CREATE" =>
              /\ aux.mapSelected = ui.map /\ aux.matchName = ui.matchName
              /\ aux.numTerrorist = ui.numTerrorist
              /\ aux.numCounterTerrorist = ui.numCounter
         /\ aux.type = "JOIN" => aux.matchName = ui.partida
<1>1. ui \in Ui /\ info_aux \in Aux
  BY DEF FormsInv
<1>2. CASE info_aux.type = "CREATE"
  <2>1. PICK aux1 \in Aux : aux1 = guardarMapa(info_aux)
    BY <1>1, Slots
  <2>2. PICK aux2 \in Aux : aux2 = guardarNombrePartida(aux1)
    BY <1>1, Slots
  <2>3. PICK aux3 \in Aux : aux3 = guardarNumJugadores(aux2)
    BY <1>1, Slots
  <2>4. aux = guardarTipoSkin(aux3) /\ aux \in Aux
    BY <1>1, <1>2, <2>1, <2>2, <2>3, Slots DEF Read
  <2>5. /\ aux1.type = info_aux.type /\ aux1.player_type = info_aux.player_type
        /\ aux1.mapSelected = ui.map
    BY <1>1, <2>1 DEF guardarMapa, Aux
  <2>6. /\ aux2.type = aux1.type /\ aux2.player_type = aux1.player_type
        /\ aux2.mapSelected = aux1.mapSelected /\ aux2.matchName = ui.matchName
    BY <2>2 DEF guardarNombrePartida, Aux
  <2>7. /\ aux3.type = aux2.type /\ aux3.player_type = aux2.player_type
        /\ aux3.mapSelected = aux2.mapSelected /\ aux3.matchName = aux2.matchName
        /\ aux3.numTerrorist = ui.numTerrorist /\ aux3.numCounterTerrorist = ui.numCounter
    BY <2>3 DEF guardarNumJugadores, Aux
  <2>8. /\ aux.type = aux3.type /\ aux.player_type = aux3.player_type
        /\ aux.mapSelected = aux3.mapSelected /\ aux.matchName = aux3.matchName
        /\ aux.numTerrorist = aux3.numTerrorist
        /\ aux.numCounterTerrorist = aux3.numCounterTerrorist
        /\ aux.skin = (IF ui.typeSkin = None THEN UNKNOWN ELSE ui.typeSkin)
    BY <2>4 DEF guardarTipoSkin, Aux
  <2> QED BY <1>2, <2>4, <2>5, <2>6, <2>7, <2>8
<1>3. CASE info_aux.type = "JOIN"
  <2>1. PICK aux1 \in Aux : aux1 = guardarPartidaElegida(info_aux)
    BY <1>1, Slots
  <2>2. aux = guardarTipoSkin(aux1) /\ aux \in Aux
    BY <1>1, <1>3, <2>1, Slots DEF Read
  <2>3. /\ aux1.type = info_aux.type /\ aux1.player_type = info_aux.player_type
        /\ aux1.matchName = ui.partida
    BY <1>1, <2>1 DEF guardarPartidaElegida, Aux
  <2>4. /\ aux.type = aux1.type /\ aux.player_type = aux1.player_type
        /\ aux.matchName = aux1.matchName
        /\ aux.skin = (IF ui.typeSkin = None THEN UNKNOWN ELSE ui.typeSkin)
    BY <2>2 DEF guardarTipoSkin, Aux
  <2> QED BY <1>3, <2>2, <2>3, <2>4
<1>4. CASE info_aux.type \notin {"CREATE", "JOIN"}
  <2>1. aux = guardarTipoSkin(info_aux) /\ aux \in Aux
    BY <1>1, <1>4, Slots DEF Read
  <2> QED BY <1>1, <1>4, <2>1 DEF guardarTipoSkin, Aux
<1> QED BY <1>2, <1>3, <1>4

LEMMA FormsStep ==
  ASSUME FormsInv, FormsNext
  PROVE  FormsInv'
<1>1. CASE guardarCampos
  BY <1>1 DEF guardarCampos, FormsInv
<1>2. CASE PreLobbySaveDTO
  BY <1>2 DEF PreLobbySaveDTO, FormsInv
<1>3. CASE CloseWindow
  BY <1>3 DEF CloseWindow, FormsInv
<1>4. ASSUME NEW operacion \in {"CREATE", "JOIN"}, guardarOperacion(operacion)
      PROVE  FormsInv'
  <2>1. /\ \/ ui' = [ui EXCEPT !.operacion = operacion, !.map = None]
           \/ ui' = [ui EXCEPT !.operacion = operacion, !.partida = None]
        /\ info_aux' = [info_aux EXCEPT !.type = operacion]
        /\ UNCHANGED <<window, fields, info>>
    BY <1>4 DEF guardarOperacion
  <2>2. /\ ui' \in Ui /\ ui'.operacion = operacion
        /\ ui'.equipo = ui.equipo /\ ui'.typeSkin = ui.typeSkin
    BY <2>1 DEF FormsInv, Ui
  <2>3. /\ info_aux' \in Aux /\ info_aux'.type = operacion
        /\ info_aux'.player_type = info_aux.player_type
    BY <2>1 DEF FormsInv, Aux
  <2> QED BY <2>1, <2>2, <2>3 DEF FormsInv, None
<1>5. ASSUME NEW equipo \in {"TERRORIST", "COUNTERTERRORIST"}, guardarEquipo(equipo)
      PROVE  FormsInv'
  <2>1. /\ ui' = [ui EXCEPT !.equipo = equipo, !.typeSkin = None]
        /\ info_aux' = [info_aux EXCEPT !.player_type = equipo]
        /\ UNCHANGED <<window, fields, info>>
    BY <1>5 DEF guardarEquipo
  <2>2. /\ ui' \in Ui /\ ui'.operacion = ui.operacion
        /\ ui'.equipo = equipo /\ ui'.typeSkin = None
    BY <2>1 DEF FormsInv, Ui
  <2>3. /\ info_aux' \in Aux /\ info_aux'.type = info_aux.type
        /\ info_aux'.player_type = equipo
    BY <2>1 DEF FormsInv, Aux
  <2> QED BY <2>1, <2>2, <2>3 DEF FormsInv, None
<1>6. CASE Fill
  <2>1. UNCHANGED <<window, fields, info_aux, info>>
    BY <1>6 DEF Fill
  <2>2. /\ ui' \in Ui /\ ui'.operacion = ui.operacion /\ ui'.equipo = ui.equipo
        /\ ui'.typeSkin \in Skins(ui.equipo) \cup {None}
    BY <1>6, SkinsOf DEF Fill, FormsInv, Ui
  <2> QED BY <2>1, <2>2 DEF FormsInv
<1>7. CASE saveDTO
  <2>1. /\ info_aux' = Read(info_aux) /\ UNCHANGED <<ui, fields>>
        /\ info' \in {info, ToDTO(info_aux')} /\ window' \in {window, "none"}
    BY <1>7 DEF saveDTO
  <2>2. ToDTO(info_aux').type \in {"CREATE", "JOIN"}
    BY DEF ToDTO
  <2> QED BY <2>1, <2>2, Reading DEF FormsInv
<1> QED BY <1>1, <1>2, <1>3, <1>4, <1>5, <1>6, <1>7 DEF FormsNext

\* The constructor of Lobby, and what is left of the forms after it.
LEMMA FormsEmptied ==
  ASSUME FormsInv, ui' = EmptyUi, info_aux' = EmptyAux, window' \in {window, "lobby"},
         info' \in {info, NoInfo}, UNCHANGED fields
  PROVE  FormsInv'
<1>1. EmptyUi \in Ui /\ EmptyUi.typeSkin = None /\ EmptyAux \in Aux
  BY DEF EmptyUi, EmptyAux, Ui, Aux
<1> QED BY <1>1 DEF FormsInv, EmptyUi, EmptyAux, NoInfo

LEMMA FormsTyped == FormsInv => FormsTypeOK
BY DEF FormsInv, FormsTypeOK, Ui, Aux

LEMMA FormsKept == FormsInv /\ UNCHANGED formVars => FormsInv'
BY DEF FormsInv, formVars

LEMMA ViewKept == ViewTypeOK /\ UNCHANGED viewVars => ViewTypeOK'
BY DEF ViewTypeOK, viewVars, overlayVars, flagVars

LEMMA FreshKept == Fresh /\ UNCHANGED viewVars => Fresh'
BY DEF Fresh, viewVars, overlayVars, flagVars

\* The server.
LEMMA ServerLeaves ==
  ASSUME ClientInv, ServerStep
  PROVE  /\ FormsInv' /\ ViewTypeOK' /\ (Fresh => Fresh')
         /\ connection = "up" /\ pc \notin {"prelobby", "connect"}
         /\ (Live' <=> Live) /\ Taken' = Taken
         /\ UNCHANGED <<viewVars, pc, stop_flag, last, actions, send_queue, sending, recv_queue,
                       sender, receiver, keep_running, send_closed, killed>>
<1>1. UNCHANGED <<formVars, viewVars, pc, stop_flag, last, actions, send_queue, sending,
                  recv_queue, sender, receiver, keep_running, send_closed, killed>>
  BY DEF ServerStep, mainVars, historyVars, threadVars, queueVars
<1>2. FormsInv' /\ ViewTypeOK' /\ (Fresh => Fresh')
  BY <1>1, FormsKept, ViewKept, FreshKept DEF ClientInv
<1>3. connection = "up" /\ pc \notin {"prelobby", "connect"}
  BY DEF ServerStep, ClientInv, Stages
<1>4. (Live' <=> Live) /\ Taken' = Taken
  BY <1>1 DEF Live, Taken
<1> QED BY <1>1, <1>2, <1>3, <1>4

LEMMA ServerSends ==
  ASSUME ClientInv, ServerStep, NEW m \in Message, SendToClient(m),
         ThreadTypes', Live => Follows(Newest(Taken, Ahead), m), Live => Sent(m)'
  PROVE  ClientInv'
<1>1. wire' = Append(wire, m) /\ UNCHANGED connection
  BY DEF SendToClient
<1>2. SeqTypes'
  BY <1>1, ServerLeaves, AppendProperties DEF ClientInv, SeqTypes
<1>3. Stages'
  BY <1>1, ServerLeaves DEF ClientInv, Stages
<1>4. OrderKept'
  <2>1. Ahead' = Append(Ahead, m)
    BY <1>1, ServerLeaves, AppendConcat DEF Ahead, ClientInv, SeqTypes
  <2> QED BY <2>1, ServerLeaves, Sending DEF ClientInv
<1> QED BY <1>2, <1>3, <1>4, ServerLeaves DEF ClientInv

LEMMA EnvironmentStep ==
  ASSUME ClientInv, Environment
  PROVE  ClientInv'
<1> DEFINE z == Newest(Taken, Ahead)
<1>1. z \in Message /\ (Live => Sent(z))
  BY NewestType DEF ClientInv, OrderKept
<1> HIDE DEF z
<1>2. ASSUME ServerStep, UNCHANGED connection,
             phase' \in {"answer", "initial", "shop", "opening", "game", "stats", "message",
                        "end", "over"}
      PROVE  ThreadTypes'
  <2>1. UNCHANGED <<pc, stop_flag, sending, sender, receiver, keep_running, send_closed, killed>>
    BY <1>2, ServerLeaves
  <2> QED BY <1>2, <2>1 DEF ClientInv, ThreadTypes
<1>3. CASE SendInformation
  <2>1. PICK m \in Message : m = [type |-> "INFORMATION"] /\ SendToClient(m)
    BY <1>3 DEF SendInformation, Message
  <2>2. /\ ServerStep /\ phase = "handshake" /\ phase' = "answer"
        /\ UNCHANGED connection
    BY <1>3 DEF SendInformation, SendToClient
  <2>3. ThreadTypes'
    BY <1>2, <2>2 DEF ClientInv, ThreadTypes
  <2>4. Live => Follows(z, m) /\ Sent(m)'
    BY <1>1, <2>1, <2>2 DEF Follows, Sent
  <2> QED BY <2>1, <2>2, <2>3, <2>4, ServerSends DEF z
<1>4. CASE SendConfiguration
  <2>1. PICK m \in Message : m = [type |-> "CONFIGURATION"] /\ SendToClient(m)
    BY <1>4 DEF SendConfiguration, Message
  <2>2. /\ ServerStep /\ phase = "answer"
        /\ phase' \in {"initial", "shop", "opening", "stats", "message"}
        /\ UNCHANGED connection
    BY <1>4 DEF SendConfiguration, SendToClient
  <2>3. ThreadTypes'
    BY <1>2, <2>2 DEF ClientInv, ThreadTypes
  <2>4. Live => Follows(z, m) /\ Sent(m)'
    BY <1>1, <2>1, <2>2 DEF Follows, Sent
  <2> QED BY <2>1, <2>2, <2>3, <2>4, ServerSends DEF z
<1>5. CASE SendInitialSnapshot
  <2>1. PICK m \in Message : m = Snapshot(TRUE) /\ SendToClient(m)
    BY <1>5 DEF SendInitialSnapshot, Snapshot, Message, ClientInv, ThreadTypes
  <2>2. /\ ServerStep /\ phase = "initial" /\ phase' \in {"shop", "message"}
        /\ UNCHANGED connection
    BY <1>5 DEF SendInitialSnapshot, SendToClient
  <2>3. ThreadTypes'
    BY <1>2, <2>2 DEF ClientInv, ThreadTypes
  <2>4. Live => Follows(z, m) /\ Sent(m)'
    BY <1>1, <2>1, <2>2 DEF Follows, Snapshot, Sent
  <2> QED BY <2>1, <2>2, <2>3, <2>4, ServerSends DEF z
<1>6. CASE SendShop
  <2>1. PICK m \in Message : m = [type |-> "SHOP"] /\ SendToClient(m)
    BY <1>6 DEF SendShop, Message
  <2>2. /\ ServerStep /\ phase = "shop" /\ phase' = "opening"
        /\ UNCHANGED connection
    BY <1>6 DEF SendShop, SendToClient
  <2>3. ThreadTypes'
    BY <1>2, <2>2 DEF ClientInv, ThreadTypes
  <2>4. Live => Follows(z, m) /\ Sent(m)'
    BY <1>1, <2>1, <2>2 DEF Follows, Sent
  <2> QED BY <2>1, <2>2, <2>3, <2>4, ServerSends DEF z
<1>7. CASE SendSnapshot
  <2>1. PICK m \in Message : m = Snapshot(FALSE) /\ SendToClient(m)
    BY <1>7 DEF SendSnapshot, Snapshot, Message, ClientInv, ThreadTypes
  <2>2. /\ ServerStep /\ phase \in {"opening", "game"} /\ phase' \in {"game", "stats"}
        /\ UNCHANGED connection
    BY <1>7 DEF SendSnapshot, SendToClient
  <2>3. ThreadTypes'
    BY <1>2, <2>2 DEF ClientInv, ThreadTypes
  <2>4. m.type = "UPDATE" /\ ~m.static
    BY <2>1 DEF Snapshot
  <2>5. Live => Follows(z, m)
    BY <1>1, <2>2, <2>4 DEF Follows, Sent
  <2>6. Sent(m)'
    BY <2>2, <2>4 DEF Sent
  <2> QED BY <2>1, <2>2, <2>3, <2>5, <2>6, ServerSends DEF z
<1>8. CASE SendStats
  <2>1. PICK m \in Message : m = [type |-> "STATS"] /\ SendToClient(m)
    BY <1>8 DEF SendStats, Message
  <2>2. /\ ServerStep /\ phase = "stats" /\ phase' \in {"shop", "message"}
        /\ UNCHANGED connection
    BY <1>8 DEF SendStats, SendToClient
  <2>3. ThreadTypes'
    BY <1>2, <2>2
  <2>4. Live => Follows(z, m) /\ Sent(m)'
    BY <1>1, <2>1, <2>2 DEF Follows, Sent
  <2> QED BY <2>1, <2>2, <2>3, <2>4, ServerSends DEF z
<1>9. CASE SendMessage
  <2>1. PICK m \in Message : m = [type |-> "MESSAGE"] /\ SendToClient(m)
    BY <1>9 DEF SendMessage, Message
  <2>2. /\ ServerStep /\ phase = "message" /\ phase' = "end"
        /\ UNCHANGED connection
    BY <1>9 DEF SendMessage, SendToClient
  <2>3. ThreadTypes'
    BY <1>2, <2>2 DEF ClientInv, ThreadTypes
  <2>4. Live => Follows(z, m) /\ Sent(m)'
    BY <1>1, <2>1, <2>2 DEF Follows, Sent
  <2> QED BY <2>1, <2>2, <2>3, <2>4, ServerSends DEF z
<1>10. CASE SendEnd
  <2>1. PICK m \in Message : m = [type |-> "END"] /\ SendToClient(m)
    BY <1>10 DEF SendEnd, Message
  <2>2. /\ ServerStep /\ phase = "end" /\ phase' = "over"
        /\ UNCHANGED connection
    BY <1>10 DEF SendEnd, SendToClient
  <2>3. ThreadTypes'
    BY <1>2, <2>2 DEF ClientInv, ThreadTypes
  <2>4. Live => Follows(z, m) /\ Sent(m)'
    BY <1>1, <2>1, <2>2 DEF Follows, Sent
  <2> QED BY <2>1, <2>2, <2>3, <2>4, ServerSends DEF z
<1>11. CASE Disconnect \/ Reset
  <2>1. /\ ServerStep /\ connection' \in {"closed", "reset"} /\ wire' \in {wire, <<>>}
        /\ phase' = "over"
    BY <1>11 DEF Disconnect, Reset
  <2>2. ThreadTypes'
    BY <2>1, ServerLeaves DEF ClientInv, ThreadTypes
  <2>3. SeqTypes'
    BY <2>1, ServerLeaves, EmptySeq DEF ClientInv, SeqTypes
  <2>4. Stages'
    BY <2>1, ServerLeaves DEF ClientInv, Stages
  <2>5. ASSUME Live
        PROVE  Chain(Taken, Ahead)' /\ Sent(Newest(Taken, Ahead))'
    <3>1. Ahead' \in {recv_queue \o wire, recv_queue \o <<>>}
      BY <2>1, ServerLeaves DEF Ahead
    <3>2. Chain(Taken, Ahead')
      BY <2>5, <3>1, ChainPrefix DEF ClientInv, OrderKept, SeqTypes, Ahead
    <3>3. Chain(Taken, Ahead)'
      BY <3>2, ServerLeaves, <2>1, Primed
    <3> QED BY <2>1, <3>3 DEF Sent
  <2> QED BY <2>2, <2>3, <2>4, <2>5, <2>1, ServerLeaves DEF ClientInv, OrderKept
<1> QED BY <1>3, <1>4, <1>5, <1>6, <1>7, <1>8, <1>9, <1>10, <1>11 DEF Environment

\* The main thread up to the match.
LEMMA StepsKeep ==
  ASSUME ClientInv, NEW from \in Before, NEW to, Steps(from, to),
         wire' \in Seq(Message)
  PROVE  /\ pc = from /\ pc' = to /\ Live
         /\ ViewTypeOK' /\ (Fresh => Fresh')
         /\ recv_queue = <<>> /\ recv_queue' = <<>> /\ Ahead = wire /\ Ahead' = wire'
         /\ last = UnknownAction /\ last' = UnknownAction
         /\ UNCHANGED <<viewVars, phase, stop_flag, actions, send_queue, send_closed>>
<1>1. /\ pc = from /\ pc' = to
      /\ UNCHANGED <<viewVars, phase, stop_flag, actions, last, send_queue, send_closed,
                     recv_queue>>
  BY DEF Steps, historyVars, queueVars
<1>2. ViewTypeOK' /\ (Fresh => Fresh')
  BY <1>1, ViewKept, FreshKept DEF ClientInv
<1>3. recv_queue = <<>> /\ last = UnknownAction
  BY <1>1 DEF ClientInv, Stages
<1>4. Live
  BY <1>1 DEF Live
<1>5. Ahead = wire
  BY <1>3, ConcatEmptySeq DEF Ahead, ClientInv, SeqTypes
<1>6. Ahead' = wire'
  BY <1>1, <1>3, ConcatEmptySeq DEF Ahead
<1> QED BY <1>1, <1>2, <1>3, <1>4, <1>5, <1>6

LEMMA MainStarts ==
  ASSUME ClientInv,
         \/ UseWindow \/ PrelobbyEnds \/ Connect \/ OpenLobby \/ LobbyEnds \/ SendRequest
         \/ ReadConfiguration \/ StartSender \/ StartReceiver
  PROVE  ClientInv'
<1>1. ASSUME NEW from \in Before, NEW to \in Before \cup {"poll", "done"}, Steps(from, to),
             FormsInv', wire' = wire,
             sender' \in {sender, "pop"}, receiver' \in {receiver, "receive"},
             to \in Before => receiver' = "none",
             UNCHANGED <<keep_running, sending, killed>>,
             connection' \in {connection, "up"},
             connection' = "none" => to \in {"connect", "done"},
             to \in {"prelobby", "connect"} => connection' = "none",
             connection \in {"closed", "reset"} => connection' = connection,
             to # "done" => \/ {from, to} \subseteq {"prelobby", "connect", "information"}
                            \/ {from, to} \subseteq {"lobby", "send", "configuration"}
                            \/ {from, to} \subseteq {"start_sender", "start_receiver", "poll"}
      PROVE  ClientInv'
  <2>1. SeqTypes'
    BY <1>1, StepsKeep DEF ClientInv, SeqTypes
  <2>2. /\ pc = from /\ pc' = to /\ Live /\ ViewTypeOK' /\ (Fresh => Fresh')
        /\ Ahead' = Ahead /\ last = UnknownAction /\ last' = UnknownAction
        /\ recv_queue' = <<>>
        /\ UNCHANGED <<phase, stop_flag, send_closed>>
    BY <1>1, <2>1, StepsKeep DEF SeqTypes
  <2>3. ThreadTypes'
    <3>1. to \in Process
      BY <1>1 DEF Process, Frame, After
    <3> QED BY <1>1, <2>2, <3>1 DEF ClientInv, ThreadTypes
  <2>4. Stages'
    <3>1. Fresh'
      BY <2>2 DEF ClientInv, Stages
    <3>2. last'.type # "END"
      BY <2>2 DEF UnknownAction, UNKNOWN
    <3>3. ~killed
      BY <1>1, <2>2 DEF ClientInv, Stages, Before, After
    <3> QED BY <1>1, <2>2, <3>1, <3>2, <3>3 DEF ClientInv, Stages
  <2>5. OrderKept'
    <3>1. Live' => Taken' = Taken
      BY <1>1, <2>2 DEF Live, Taken, Before
    <3> QED BY <2>2, <3>1, Quiet DEF ClientInv
  <2> QED BY <1>1, <2>1, <2>2, <2>3, <2>4, <2>5 DEF ClientInv
<1>2. CASE UseWindow
  <2>1. FormsInv'
    BY <1>2, FormsStep DEF UseWindow, ClientInv
  <2>2. UNCHANGED <<viewVars, mainVars, threadVars, queueVars, phase, netVars>>
    BY <1>2 DEF UseWindow, UserStep
  <2>3. ViewTypeOK' /\ (Fresh => Fresh')
    BY <2>2, ViewKept, FreshKept DEF ClientInv
  <2>4. ThreadTypes' /\ SeqTypes' /\ Stages' /\ (Live' <=> Live) /\ Taken' = Taken
        /\ Ahead' = Ahead
    <3>1. UNCHANGED <<pc, stop_flag, actions, last, sender, receiver, keep_running, sending,
                      send_queue, send_closed, recv_queue, phase, killed,
                      connection, wire>>
      BY <2>2 DEF mainVars, historyVars, threadVars, queueVars, netVars
    <3>2. (Live' <=> Live) /\ Taken' = Taken /\ Ahead' = Ahead
      BY <3>1 DEF Live, Taken, Ahead
    <3>3. ThreadTypes'
      BY <3>1 DEF ClientInv, ThreadTypes
    <3>4. SeqTypes'
      BY <3>1 DEF ClientInv, SeqTypes
    <3>5. Stages'
      BY <3>1, <3>2, <2>3 DEF ClientInv, Stages
    <3> QED BY <3>2, <3>3, <3>4, <3>5
  <2> QED BY <2>1, <2>2, <2>3, <2>4, Quiet DEF ClientInv
<1>3. CASE PrelobbyEnds
  <2>1. PICK to \in {"connect", "done"} : Steps("prelobby", to)
    BY <1>3 DEF PrelobbyEnds
  <2>2. UNCHANGED <<formVars, sender, receiver, keep_running, sending, killed, connection, wire>>
    BY <1>3 DEF PrelobbyEnds, threadVars, netVars
  <2>3. FormsInv' /\ connection = "none" /\ receiver = "none"
    BY <2>1, <2>2, FormsKept DEF ClientInv, Stages, Steps, Before
  <2> QED BY <2>1, <2>2, <2>3, <1>1 DEF Before
<1>4. CASE Connect
  <2>1. PICK to \in {"information", "done"} :
          /\ Steps("connect", to) /\ connection' = IF to = "done" THEN connection ELSE "up"
    BY <1>4 DEF Connect
  <2>2. UNCHANGED <<formVars, sender, receiver, keep_running, sending, killed, wire>>
    BY <1>4 DEF Connect, threadVars
  <2>3. FormsInv' /\ connection = "none" /\ receiver = "none"
    BY <2>1, <2>2, FormsKept DEF ClientInv, Stages, Steps, Before
  <2> QED BY <2>1, <2>2, <2>3, <1>1 DEF Before
<1>5. ASSUME NEW from \in Before, NEW to \in Before, Steps(from, to), FormsInv',
             wire # <<>>, wire' = Tail(wire), Live' => Taken' = Head(wire),
             receiver' = receiver, from \notin {"prelobby", "connect"},
             to \notin {"prelobby", "connect"},
             UNCHANGED <<sender, keep_running, sending, killed, connection>>
      PROVE  ClientInv'
  <2>1. wire \in Seq(Message) /\ wire' \in Seq(Message)
    BY <1>5, HeadTailProperties DEF ClientInv, SeqTypes
  <2>2. /\ pc = from /\ pc' = to /\ Live /\ ViewTypeOK' /\ (Fresh => Fresh')
        /\ Ahead = wire /\ Ahead' = wire' /\ last = UnknownAction /\ last' = UnknownAction
        /\ recv_queue' = <<>>
        /\ UNCHANGED <<phase, stop_flag, send_closed, actions, send_queue>>
    BY <1>5, <2>1, StepsKeep
  <2>3. SeqTypes'
    BY <1>5, <2>1, <2>2, EmptySeq DEF ClientInv, SeqTypes
  <2>4. ThreadTypes'
    BY <1>5, <2>2 DEF ClientInv, ThreadTypes, Process
  <2>5. Stages'
    <3>1. Fresh'
      BY <2>2 DEF ClientInv, Stages
    <3>2. last'.type # "END"
      BY <2>2 DEF UnknownAction, UNKNOWN
    <3>3. ~killed /\ receiver = "none" /\ connection # "none"
      BY <1>5, <2>2 DEF ClientInv, Stages, Before, After
    <3> QED BY <1>5, <2>2, <3>1, <3>2, <3>3 DEF ClientInv, Stages
  <2>6. OrderKept'
    BY <1>5, <2>2, Advance DEF ClientInv
  <2> QED BY <1>5, <2>2, <2>3, <2>4, <2>5, <2>6 DEF ClientInv
<1>6. ASSUME NEW m \in Message, NEW type \in {"INFORMATION", "CONFIGURATION"}, m.type = type
      PROVE  m = [type |-> type]
  BY <1>6 DEF Message
<1>7. CASE OpenLobby
  <2>1. UNCHANGED <<sender, receiver, keep_running, sending, killed, connection>>
    BY <1>7 DEF OpenLobby, threadVars
  <2>2. CASE /\ wire # <<>> /\ Head(wire).type = "INFORMATION"
             /\ Steps("information", "lobby")
             /\ wire' = Tail(wire) /\ ShowLobby
    <3>1. FormsInv'
      BY <2>2, FormsEmptied DEF ShowLobby, ClientInv
    <3>2. Head(wire) \in Message
      BY <2>2, HeadTailProperties DEF ClientInv, SeqTypes
    <3>3. Taken' = Head(wire)
      BY <2>2, <3>2, <1>6 DEF Steps, Taken
    <3> QED BY <2>1, <2>2, <3>1, <3>3, <1>5 DEF Before
  <2>3. CASE Steps("information", "done") /\ UNCHANGED <<formVars, wire>>
    <3>1. FormsInv' /\ connection # "none"
      BY <2>3, FormsKept DEF ClientInv, Stages, Steps
    <3> QED BY <2>1, <2>3, <3>1, <1>1 DEF Before
  <2> QED BY <1>7, <2>2, <2>3 DEF OpenLobby
<1>8. CASE LobbyEnds
  <2>1. /\ Steps("lobby", "send")
        /\ UNCHANGED <<sender, receiver, keep_running, sending, killed, connection, wire>>
    BY <1>8 DEF LobbyEnds, threadVars, netVars
  <2>2. FormsInv'
    BY <1>8, FormsEmptied DEF LobbyEnds, ClientInv
  <2>3. connection # "none" /\ receiver = "none"
    BY <2>1 DEF ClientInv, Stages, Steps, Before
  <2> QED BY <2>1, <2>2, <2>3, <1>1 DEF Before
<1>9. CASE SendRequest
  <2>1. PICK to \in {"configuration", "done"} : Steps("send", to)
    BY <1>9 DEF SendRequest
  <2>2. UNCHANGED <<formVars, sender, receiver, keep_running, sending, killed, connection, wire>>
    BY <1>9 DEF SendRequest, threadVars, netVars
  <2>3. FormsInv' /\ connection # "none" /\ receiver = "none"
    BY <2>1, <2>2, FormsKept DEF ClientInv, Stages, Steps, Before
  <2> QED BY <2>1, <2>2, <2>3, <1>1 DEF Before
<1>10. CASE ReadConfiguration
  <2>1. UNCHANGED <<sender, receiver, keep_running, sending, killed, connection>>
    BY <1>10 DEF ReadConfiguration, threadVars
  <2>2. FormsInv'
    BY <1>10 DEF ReadConfiguration, ClientInv, FormsInv, NoInfo
  <2>3. CASE /\ wire # <<>> /\ Head(wire).type = "CONFIGURATION"
             /\ Steps("configuration", "start_sender") /\ wire' = Tail(wire)
    <3>1. Head(wire) \in Message
      BY <2>3, HeadTailProperties DEF ClientInv, SeqTypes
    <3>2. last' = UnknownAction
      BY <2>3 DEF ClientInv, Stages, Steps, historyVars, Before
    <3>3. Taken' = Head(wire)
      BY <2>3, <3>1, <3>2, <1>6 DEF Steps, Taken
    <3> QED BY <2>1, <2>2, <2>3, <3>3, <1>5 DEF Before
  <2>4. CASE Steps("configuration", "done") /\ UNCHANGED wire
    <3>1. connection # "none"
      BY <2>4 DEF ClientInv, Stages, Steps
    <3> QED BY <2>1, <2>2, <2>4, <3>1, <1>1 DEF Before
  <2> QED BY <1>10, <2>3, <2>4 DEF ReadConfiguration
<1>11. CASE StartSender
  <2>1. /\ Steps("start_sender", "start_receiver") /\ sender' = "pop"
        /\ UNCHANGED <<formVars, receiver, keep_running, sending, killed, connection, wire>>
    BY <1>11 DEF StartSender, netVars
  <2>2. FormsInv' /\ connection # "none" /\ receiver = "none"
    BY <2>1, FormsKept DEF ClientInv, Stages, Steps, Before
  <2> QED BY <2>1, <2>2, <1>1 DEF Before
<1>12. CASE StartReceiver
  <2>1. /\ Steps("start_receiver", "poll") /\ receiver' = "receive"
        /\ UNCHANGED <<formVars, sender, keep_running, sending, killed, connection, wire>>
    BY <1>12 DEF StartReceiver, netVars
  <2>2. FormsInv' /\ connection # "none"
    BY <2>1, FormsKept DEF ClientInv, Stages, Steps
  <2> QED BY <2>1, <2>2, <1>1 DEF Before
<1> QED BY <1>2, <1>3, <1>4, <1>7, <1>8, <1>9, <1>10, <1>11, <1>12

\* match_loop().
BombViews == [exploding : BOOLEAN, active : BOOLEAN, dropped : BOOLEAN]

LEMMA BombTypes ==
  ASSUME bomb_view \in BombViews
  PROVE  /\ BombReset(bomb_view) \in BombViews
         /\ \A bombs \in Bombs : UpdateBombs(bombs) \in BombViews
<1>1. ASSUME NEW v \in BombViews
      PROVE  /\ [v EXCEPT !.exploding = FALSE] \in BombViews
             /\ [v EXCEPT !.active = FALSE] \in BombViews
             /\ [v EXCEPT !.dropped = FALSE] \in BombViews
  BY DEF BombViews
<1>2. ASSUME NEW v \in BombViews PROVE BombReset(v) \in BombViews
  <2>1. BombReset(v) = [[v EXCEPT !.exploding = FALSE] EXCEPT !.active = FALSE]
    BY DEF BombReset
  <2> QED BY <1>1, <2>1
<1>3. ASSUME NEW bombs \in Bombs
      PROVE  UpdateBombs(bombs) \in BombViews
  <2>1. CASE bombs.said = {}
    BY <1>1, <1>2, <2>1 DEF UpdateBombs
  <2>2. CASE bombs.said # {}
    <3>1. bomb_view.dropped \in BOOLEAN
      BY DEF BombViews
    <3>2. (IF bombs.last = "none" THEN bomb_view.dropped ELSE bombs.last = "dropped") \in BOOLEAN
      BY <3>1
    <3> QED BY <2>2, <3>2 DEF UpdateBombs, BombViews
  <2> QED BY <2>1, <2>2
<1> QED BY <1>2, <1>3

LEMMA PlayersType ==
  ASSUME ViewTypeOK, NEW ids \in SUBSET Ids, NEW gone, NEW after,
         after = Without(UpdatePlayers(ids), gone)
  PROVE  /\ DOMAIN after = (DOMAIN players \cup ids) \ gone
         /\ \A i \in DOMAIN after : after[i] \in Views
BY DEF Without, UpdatePlayers, ViewTypeOK, Views

LEMMA SnapshotTypes ==
  ASSUME ViewTypeOK, NEW update, update.players \in SUBSET Ids, update.bombs \in Bombs,
         update.static \in BOOLEAN, update.static => obstacles = 0, TakeSnapshot(update)
  PROVE  ViewTypeOK'
<1> DEFINE gone == Gone(update.players)
<1>1. UpdateObjects(update) /\ show_waiting_lobby' = FALSE
  BY DEF TakeSnapshot
<1>2. players' = Without(UpdatePlayers(update.players), gone)
  BY <1>1 DEF UpdateObjects
<1> HIDE DEF gone
<1>3. DOMAIN players' \subseteq Ids /\ \A i \in DOMAIN players' : players'[i] \in Views
  <2>1. /\ DOMAIN players' = (DOMAIN players \cup update.players) \ gone
        /\ \A i \in DOMAIN players' : players'[i] \in Views
    BY <1>2, PlayersType
  <2> QED BY <2>1 DEF ViewTypeOK
<1>4. bomb_view' \in BombViews
  BY <1>1, BombTypes DEF UpdateObjects, ViewTypeOK, BombViews
<1>5. obstacles' \in 0 .. 1
  BY <1>1 DEF UpdateObjects, ViewTypeOK
<1>6. fov_view' \in BOOLEAN /\ is_alive' \in BOOLEAN
  BY <1>1 DEF UpdateObjects, ViewTypeOK
<1>7. shop_view' \in BOOLEAN /\ stats_view' \in BOOLEAN /\ game_ended' \in BOOLEAN
  BY <1>1 DEF UpdateObjects, ViewTypeOK
<1> QED BY <1>1, <1>3, <1>4, <1>5, <1>6, <1>7 DEF ViewTypeOK, BombViews

LEMMA MessageTypes ==
  ASSUME ViewTypeOK, NEW m \in Message, Take(m),
         m.type \in {"SHOP", "STATS", "MESSAGE", "END", UNKNOWN}
  PROVE  ViewTypeOK'
<1>1. show_waiting_lobby' = FALSE
  BY DEF Take
<1>2. CASE m.type \in {"END", UNKNOWN}
  <2>1. UNCHANGED <<players, obstacles, bomb_view, overlayVars, game_ended, is_alive>>
    BY <1>2 DEF Take, UNKNOWN
  <2> QED BY <1>1, <2>1 DEF ViewTypeOK, overlayVars
<1>3. CASE m.type = "MESSAGE"
  <2>1. ShowEndBanner
    BY <1>3 DEF Take, UNKNOWN
  <2> QED BY <1>1, <2>1 DEF ShowEndBanner, ViewTypeOK
<1>4. CASE m.type = "SHOP"
  <2>1. HandleShopAction
    BY <1>4 DEF Take, UNKNOWN
  <2>2. bomb_view' \in BombViews
    BY <2>1, BombTypes DEF HandleShopAction, ViewTypeOK, BombViews
  <2> QED BY <1>1, <2>1, <2>2 DEF HandleShopAction, ViewTypeOK, BombViews
<1>5. CASE m.type = "STATS"
  <2>1. HandleStatsAction
    BY <1>5 DEF Take, UNKNOWN
  <2> QED BY <1>1, <2>1 DEF HandleStatsAction, ViewTypeOK
<1> QED BY <1>2, <1>3, <1>4, <1>5

LEMMA ForgottenTypes ==
  ASSUME ViewForgotten
  PROVE  ViewTypeOK'
<1>1. DOMAIN players' = {} /\ obstacles' \in 0 .. 1
  BY NoDomain DEF ViewForgotten
<1>2. bomb_view' \in [exploding : BOOLEAN, active : BOOLEAN, dropped : BOOLEAN]
  BY DEF ViewForgotten
<1>3. /\ shop_view' \in BOOLEAN /\ stats_view' \in BOOLEAN /\ fov_view' \in BOOLEAN
      /\ show_waiting_lobby' \in BOOLEAN /\ game_ended' \in BOOLEAN /\ is_alive' \in BOOLEAN
  BY DEF ViewForgotten
<1> QED BY <1>1, <1>2, <1>3 DEF ViewTypeOK

LEMMA LoopKeeps ==
  ASSUME ClientInv, pc \in Frame, pc' \in Frame \cup {"kill"}, LoopStep, stop_flag' \in BOOLEAN
  PROVE  /\ FormsInv' /\ ThreadTypes'
         /\ connection # "none" /\ ~killed
         /\ UNCHANGED <<phase, sending, sender, receiver, connection, killed, wire>>
<1>1. UNCHANGED <<formVars, sender, receiver, keep_running, sending, send_closed, phase,
                  killed, connection, wire>>
  BY DEF LoopStep, threadVars, netVars
<1>2. FormsInv'
  BY <1>1, FormsKept DEF ClientInv
<1>3. ThreadTypes'
  BY <1>1 DEF ClientInv, ThreadTypes, Process, After
<1>4. connection # "none" /\ ~killed
  BY DEF ClientInv, Stages, Frame, After
<1> QED BY <1>1, <1>2, <1>3, <1>4

\* A step of the loop that takes no message and leaves the view as it is.
LEMMA LoopQuiet ==
  ASSUME ClientInv, pc \in Frame, pc' \in Frame, LoopStep, stop_flag' \in BOOLEAN,
         pc' \in {"poll", "drain"}, pc # "render",
         actions' \in Seq(Actions), send_queue' \in Seq(Actions),
         UNCHANGED <<viewVars, last, recv_queue>>
  PROVE  ClientInv'
<1>1. ViewTypeOK' /\ (Fresh => Fresh')
  BY ViewKept, FreshKept DEF ClientInv
<1>2. Live /\ Taken' = Taken /\ Ahead' = Ahead
  BY LoopKeeps DEF Live, Frame, Taken, Ahead
<1>3. SeqTypes'
  BY LoopKeeps DEF ClientInv, SeqTypes
<1>4. Stages'
  <2>1. pc' \notin Before /\ pc' \notin {"prelobby", "connect", "done"} /\ ~killed
    BY LoopKeeps DEF Frame, Before
  <2> QED BY <1>1, <1>2, <2>1, LoopKeeps DEF ClientInv, Stages
<1>5. OrderKept'
  BY <1>2, LoopKeeps, Quiet DEF ClientInv
<1> QED BY <1>1, <1>3, <1>4, <1>5, LoopKeeps DEF ClientInv

\* What match_loop() finds at the head of its queue.
LEMMA NextMessage ==
  ASSUME ClientInv, pc = "drain", recv_queue # <<>>
  PROVE  /\ Live /\ Ahead # <<>> /\ Head(Ahead) = Head(recv_queue)
         /\ Tail(Ahead) = Tail(recv_queue) \o wire
         /\ Head(recv_queue) \in Message /\ Tail(recv_queue) \in Seq(Message)
         /\ Taken = (IF last = UnknownAction THEN [type |-> "CONFIGURATION"] ELSE last)
         /\ Follows(Taken, Head(recv_queue))
         /\ Head(recv_queue).type \in {"UPDATE", "SHOP", "STATS", "MESSAGE", "END", UNKNOWN}
<1>1. Live
  BY DEF Live
<1>2. /\ Ahead # <<>> /\ Head(Ahead) = Head(recv_queue)
      /\ Tail(Ahead) = Tail(recv_queue) \o wire
  BY TailConcat DEF Ahead, ClientInv, SeqTypes
<1>3. Head(recv_queue) \in Message /\ Tail(recv_queue) \in Seq(Message)
  BY HeadTailProperties DEF ClientInv, SeqTypes
<1>4. Taken = (IF last = UnknownAction THEN [type |-> "CONFIGURATION"] ELSE last)
  BY DEF Taken
<1>5. Follows(Taken, Head(recv_queue))
  BY <1>1, <1>2, NewestType, ChainTail DEF ClientInv, OrderKept
<1>6. Taken.type \in {"CONFIGURATION", "UPDATE", "SHOP", "STATS", "MESSAGE", UNKNOWN}
  BY <1>1, <1>4 DEF ClientInv, Stages
<1>7. last # UnknownAction => last.type # UNKNOWN
  BY DEF ClientInv, SeqTypes, Message, UnknownAction, UNKNOWN
<1>8. Head(recv_queue).type \in {"UPDATE", "SHOP", "STATS", "MESSAGE", "END", UNKNOWN}
  <2>1. Taken.type \in {"CONFIGURATION", "UPDATE", "SHOP", "STATS", "MESSAGE"}
    BY <1>4, <1>6, <1>7
  <2> QED BY <1>5, <2>1 DEF Follows, UnknownAction
<1> QED BY <1>1, <1>2, <1>3, <1>4, <1>5, <1>8

\* The process is gone.
LEMMA CrashStep ==
  ASSUME ClientInv, pc \in Frame, Crash
  PROVE  ClientInv'
<1>1. /\ pc' = "crashed" /\ sender' = "ended" /\ receiver' = "ended" /\ phase' = "over"
      /\ last' = UnknownAction /\ actions' = <<>> /\ send_queue' = <<>> /\ sending' = <<>>
      /\ recv_queue' = <<>> /\ wire' = <<>> /\ ViewForgotten
      /\ UNCHANGED <<formVars, stop_flag, send_closed, keep_running, killed, connection>>
  BY DEF Crash
<1>2. FormsInv' /\ ViewTypeOK'
  BY <1>1, FormsKept, ForgottenTypes DEF ClientInv
<1>3. ThreadTypes'
  <2>1. Len(sending') = 0
    BY <1>1
  <2> QED BY <1>1, <2>1 DEF ClientInv, ThreadTypes, Process
<1>4. SeqTypes'
  BY <1>1 DEF SeqTypes, UnknownAction, Message
<1>5. ~Live' /\ pc' \notin Before \cup {"prelobby", "connect"}
  BY <1>1 DEF Live, Before
<1>6. connection # "none" /\ ~killed
  BY DEF ClientInv, Stages, Frame, After
<1>7. Stages'
  BY <1>1, <1>5, <1>6 DEF Stages, UnknownAction
<1> QED BY <1>2, <1>3, <1>4, <1>5, <1>7 DEF ClientInv, OrderKept

\* A message taken from the queue.
LEMMA TakeStep ==
  ASSUME ClientInv, Taking, NEW m \in Message, m = Head(recv_queue), ViewTypeOK',
         pc' \in {"drain", "render"}, stop_flag' \in BOOLEAN,
         m.type \in {"END", UNKNOWN} => pc' = "render" /\ stop_flag'
  PROVE  ClientInv'
<1>1. /\ pc = "drain" /\ recv_queue # <<>> /\ recv_queue' = Tail(recv_queue) /\ last' = m
      /\ UNCHANGED <<actions, send_queue>> /\ LoopStep
  BY DEF Taking
<1>2. /\ Live /\ Ahead # <<>> /\ Head(Ahead) = m
      /\ Follows(Taken, m) /\ Tail(recv_queue) \in Seq(Message)
      /\ m.type \in {"UPDATE", "SHOP", "STATS", "MESSAGE", "END", UNKNOWN}
  BY <1>1, NextMessage
<1>3. FormsInv' /\ ThreadTypes' /\ connection # "none" /\ ~killed
      /\ UNCHANGED <<phase, sending, sender, receiver, connection, killed, wire>>
  BY <1>1, LoopKeeps DEF Frame
<1>4. SeqTypes'
  BY <1>1, <1>2, <1>3 DEF ClientInv, SeqTypes
<1>5. Live' => m.type \notin {"END", UNKNOWN}
  BY DEF Live, Before
<1>6. m = UnknownAction => m.type = UNKNOWN
  BY DEF UnknownAction
<1>7. Stages'
  BY <1>1, <1>2, <1>3, <1>5, <1>6 DEF ClientInv, Stages, Before, After
<1>8. OrderKept'
  <2>1. Ahead' = Tail(Ahead)
    BY <1>1, <1>3, NextMessage DEF Ahead
  <2>2. Live' => Taken' = m
    BY <1>1, <1>5, <1>6 DEF Taken
  <2> QED BY <1>2, <1>3, <2>1, <2>2, Advance DEF ClientInv
<1> QED BY <1>3, <1>4, <1>7, <1>8 DEF ClientInv

\* The obstacles come with the first snapshot of those who join before the start.
LEMMA StaticIsFirst ==
  ASSUME ClientInv, pc = "drain", recv_queue # <<>>, Head(recv_queue).type = "UPDATE",
         Head(recv_queue).static
  PROVE  obstacles = 0
<1>1. Live /\ Follows(Taken, Head(recv_queue))
  BY NextMessage
<1>2. last = UnknownAction => Fresh
  BY <1>1 DEF ClientInv, Stages
<1>3. ASSUME last # UnknownAction PROVE FALSE
  <2>1. Taken = last
    BY <1>3, NextMessage
  <2>2. last.type \in {"UPDATE", "SHOP", "STATS", "MESSAGE"}
    BY <1>1, <1>3 DEF ClientInv, Stages, SeqTypes, Message, UnknownAction, UNKNOWN
  <2> QED BY <1>1, <2>1, <2>2 DEF Follows, UnknownAction, UNKNOWN
<1> QED BY <1>2, <1>3 DEF Fresh

LEMMA LoopSteps ==
  ASSUME ClientInv,
         \/ Poll \/ ClickCrashes \/ Push \/ DrainMessage \/ DrainSnapshot \/ DrainNull
         \/ RenderFrame \/ RenderNull
  PROVE  ClientInv'
<1>1. CASE Poll
  <2>1. PICK a \in Actions : actions' = Append(actions, a)
    BY <1>1 DEF Poll, Actions
  <2>2. /\ pc = "poll" /\ pc' = "poll" /\ LoopStep
        /\ UNCHANGED <<viewVars, stop_flag, last, send_queue, recv_queue>>
    BY <1>1 DEF Poll, historyVars
  <2>3. actions' \in Seq(Actions)
    BY <2>1, AppendProperties DEF ClientInv, SeqTypes
  <2> QED BY <2>2, <2>3, LoopQuiet DEF ClientInv, SeqTypes, ThreadTypes, Frame
<1>2. CASE Push
  <2>1. /\ pc = "poll" /\ pc' = "drain" /\ LoopStep
        /\ send_queue' = send_queue \o actions /\ actions' = <<>>
        /\ stop_flag' = (stop_flag \/ "QUIT" \in Range(actions))
        /\ UNCHANGED <<viewVars, last, recv_queue>>
    BY <1>2 DEF Push, historyVars
  <2>2. send_queue' \in Seq(Actions) /\ actions' \in Seq(Actions)
    BY <2>1, ConcatProperties DEF ClientInv, SeqTypes
  <2>3. stop_flag' \in BOOLEAN
    BY <2>1
  <2> QED BY <2>1, <2>2, <2>3, LoopQuiet DEF Frame
<1>3. CASE DrainMessage
  <2>1. PICK m \in Message : m = Head(recv_queue)
    BY <1>3, NextMessage DEF DrainMessage, Taking
  <2>2. Taking /\ m.type # "UPDATE" /\ Take(m)
    BY <1>3, <2>1 DEF DrainMessage
  <2>3. pc = "drain" /\ m.type \in {"SHOP", "STATS", "MESSAGE", "END", UNKNOWN}
    BY <2>1, <2>2, NextMessage DEF Taking
  <2>4. ViewTypeOK'
    BY <2>2, <2>3, MessageTypes DEF ClientInv
  <2>5. /\ pc' \in {"drain", "render"} /\ stop_flag' \in BOOLEAN
        /\ m.type \in {"END", UNKNOWN} => pc' = "render" /\ stop_flag'
    <3>1. CASE m.type \in {"END", UNKNOWN}
      <4>1. stop_flag' = TRUE /\ pc' = "render"
        BY <2>2, <3>1 DEF Take, UNKNOWN
      <4> QED BY <4>1
    <3>2. CASE m.type \notin {"END", UNKNOWN}
      <4>1. UNCHANGED <<stop_flag, pc>>
        BY <2>2, <2>3, <3>2 DEF Take
      <4> QED BY <2>3, <3>2, <4>1 DEF ClientInv, ThreadTypes
    <3> QED BY <3>1, <3>2
  <2> QED BY <2>1, <2>2, <2>4, <2>5, TakeStep
<1>4. CASE DrainSnapshot
  <2>1. PICK m \in Message : m = Head(recv_queue)
    BY <1>4, NextMessage DEF DrainSnapshot, Taking
  <2>2. Taking /\ m.type = "UPDATE" /\ pc = "drain" /\ recv_queue # <<>>
    BY <1>4, <2>1 DEF DrainSnapshot, Taking
  <2>3. PICK update \in Contents(m.static) : TakeSnapshot(update)
    BY <1>4, <2>1 DEF DrainSnapshot
  <2>4. m.static \in BOOLEAN
    BY <2>2 DEF Message, UNKNOWN
  <2>5. /\ update.players \in SUBSET Ids /\ update.bombs \in Bombs
        /\ update.static \in BOOLEAN /\ (update.static => obstacles = 0)
    BY <2>1, <2>2, <2>3, <2>4, StaticIsFirst DEF Contents
  <2>6. ViewTypeOK'
    BY <2>3, <2>5, SnapshotTypes DEF ClientInv
  <2>7. pc' = "drain" /\ stop_flag' \in BOOLEAN
    BY <2>2, <2>3 DEF TakeSnapshot, ClientInv, ThreadTypes
  <2> QED BY <2>1, <2>2, <2>6, <2>7, TakeStep DEF UNKNOWN
<1>5. CASE ClickCrashes \/ DrainNull \/ RenderNull
  BY <1>5, CrashStep DEF ClickCrashes, DrainNull, RenderNull, FrameReady, Frame
<1>6. CASE RenderFrame
  <2>1. /\ pc \in {"drain", "render"} /\ Render
        /\ pc' = (IF stop_flag THEN "kill" ELSE "poll")
        /\ UNCHANGED <<stop_flag, actions, last, send_queue, recv_queue>> /\ LoopStep
    BY <1>6 DEF RenderFrame, FrameReady
  <2>2. FormsInv' /\ ThreadTypes' /\ connection # "none" /\ ~killed
        /\ UNCHANGED <<phase, sending, sender, receiver, connection, killed, wire>>
    BY <2>1, LoopKeeps DEF Frame, ClientInv, ThreadTypes
  <2>3. ViewTypeOK'
    <3>1. bomb_view' \in BombViews
      BY <2>1, BombTypes DEF Render, ClientInv, ViewTypeOK, BombViews
    <3>2. DOMAIN players' \subseteq Ids /\ \A i \in DOMAIN players' : players'[i] \in Views
      <4>1. players' \in {players, With(players, local_id, "NULL")}
        BY <2>1 DEF Render
      <4>2. DOMAIN players \subseteq Ids /\ (\A i \in DOMAIN players : players[i] \in Views)
        BY DEF ClientInv, ViewTypeOK
      <4>3. local_id \in Ids
        BY GameViewAssumption DEF GameViewAssumption
      <4>4. CASE players' = With(players, local_id, "NULL")
        BY <4>2, <4>4, <4>3 DEF With, Views
      <4> QED BY <4>1, <4>2, <4>4
    <3> QED BY <2>1, <3>1, <3>2 DEF Render, ClientInv, ViewTypeOK, BombViews, overlayVars, flagVars
  <2>4. Fresh => Fresh'
    BY <2>1 DEF Render, Fresh, overlayVars, flagVars
  <2>5. Live' => Live
    BY <2>1 DEF Live, Before
  <2>6. Taken' = Taken /\ Ahead' = Ahead
    BY <2>1, <2>2 DEF Taken, Ahead
  <2>7. SeqTypes'
    BY <2>1, <2>2 DEF ClientInv, SeqTypes
  <2>8. Stages'
    BY <2>1, <2>2, <2>4, <2>5 DEF ClientInv, Stages, Before, After
  <2>9. OrderKept'
    BY <2>2, <2>5, <2>6, Quiet DEF ClientInv
  <2> QED BY <2>2, <2>3, <2>7, <2>8, <2>9 DEF ClientInv
<1> QED BY <1>1, <1>2, <1>3, <1>4, <1>5, <1>6

\* run() after the loop.
LEMMA EndSteps ==
  ASSUME ClientInv,
         \/ Kill \/ StopSender \/ CloseQueue \/ StopReceiver \/ JoinSender \/ JoinReceiver
  PROVE  ClientInv'
<1>1. ASSUME pc \in After, pc' \in After \ {"kill"}, Remain, ViewTypeOK',
             keep_running' \subseteq keep_running, killed' \in BOOLEAN,
             send_closed' \in BOOLEAN, last' \in {last, UnknownAction},
             connection = "none" => pc' = "done"
      PROVE  ClientInv'
  <2>1. UNCHANGED <<formVars, stop_flag, actions, sender, receiver, sending, send_queue,
                    recv_queue, phase, connection, wire>>
    BY <1>1 DEF Remain
  <2>2. FormsInv'
    BY <2>1, FormsKept DEF ClientInv
  <2>3. ThreadTypes'
    BY <1>1, <2>1 DEF ClientInv, ThreadTypes, Process
  <2>4. last' \in Message /\ last'.type \in {"UPDATE", "SHOP", "STATS", "MESSAGE", "END", UNKNOWN}
    BY <1>1 DEF ClientInv, SeqTypes, Stages, UnknownAction, Message
  <2>5. SeqTypes'
    BY <2>1, <2>4 DEF ClientInv, SeqTypes
  <2>6. ~Live' /\ pc' \notin Before
    BY <1>1 DEF Live, Before, After
  <2>7. Stages'
    BY <1>1, <2>1, <2>4, <2>6 DEF ClientInv, Stages, Before
  <2> QED BY <1>1, <2>2, <2>3, <2>5, <2>6, <2>7 DEF ClientInv, OrderKept
<1>2. pc \in After /\ pc # "done" => connection # "none"
  BY DEF ClientInv, Stages, After
<1>3. CASE Kill
  <2>1. /\ pc = "kill" /\ pc' = "stop_sender" /\ killed' = TRUE /\ Remain
        /\ ViewForgotten /\ last' = UnknownAction /\ UNCHANGED <<keep_running, send_closed>>
    BY <1>3 DEF Kill
  <2>2. ViewTypeOK'
    BY <2>1, ForgottenTypes
  <2> QED BY <1>1, <1>2, <2>1, <2>2 DEF After, ClientInv, ThreadTypes
<1>4. ASSUME NEW from \in After \ {"done"}, NEW to \in After \ {"kill"}, EndStep(from, to),
             keep_running' \subseteq keep_running, killed' = killed, send_closed' \in BOOLEAN
      PROVE  ClientInv'
  <2>1. pc = from /\ pc' = to /\ UNCHANGED <<viewVars, last>> /\ Remain
    BY <1>4 DEF EndStep, historyVars
  <2>2. ViewTypeOK' /\ killed' \in BOOLEAN
    BY <1>4, <2>1, ViewKept DEF ClientInv, ThreadTypes
  <2> QED BY <1>1, <1>2, <1>4, <2>1, <2>2
<1>5. send_closed \in BOOLEAN
  BY DEF ClientInv, ThreadTypes
<1>6. CASE StopSender
  BY <1>4, <1>5, <1>6 DEF StopSender, After
<1>7. CASE CloseQueue
  BY <1>4, <1>7 DEF CloseQueue, After
<1>8. CASE StopReceiver
  BY <1>4, <1>5, <1>8 DEF StopReceiver, After
<1>9. CASE JoinSender
  BY <1>4, <1>5, <1>9 DEF JoinSender, After
<1>10. CASE JoinReceiver
  BY <1>4, <1>5, <1>10 DEF JoinReceiver, After
<1> QED BY <1>3, <1>6, <1>7, <1>8, <1>9, <1>10

\* The sender and the receiver.
LEMMA ThreadSteps ==
  ASSUME ClientInv, Sender \/ Receiver
  PROVE  ClientInv'
<1>1. ASSUME ThreadStep, UNCHANGED <<keep_running>>, SeqTypes', OrderKept',
             Len(sending') <= 1, sender' \in {"none", "pop", "send", "ended"},
             receiver' \in {"none", "receive", "ended"},
             receiver = "none" => UNCHANGED <<receiver, recv_queue>>
      PROVE  ClientInv'
  <2>1. UNCHANGED <<formVars, viewVars, pc, stop_flag, actions, last, send_closed, phase,
                    killed, connection>>
    BY <1>1 DEF ThreadStep, mainVars, historyVars
  <2>2. FormsInv' /\ ViewTypeOK' /\ (Fresh => Fresh')
    BY <2>1, FormsKept, ViewKept, FreshKept DEF ClientInv
  <2>3. ThreadTypes'
    BY <1>1, <2>1 DEF ClientInv, ThreadTypes
  <2>4. Live' <=> Live
    BY <2>1 DEF Live
  <2>5. Stages'
    BY <1>1, <2>1, <2>2, <2>4 DEF ClientInv, Stages
  <2> QED BY <1>1, <2>2, <2>3, <2>5 DEF ClientInv
<1>2. ASSUME ThreadStep, Ahead' = Ahead PROVE OrderKept'
  <2>1. UNCHANGED <<pc, stop_flag, last, phase>>
    BY <1>2 DEF ThreadStep, mainVars, historyVars
  <2>2. (Live' => Live) /\ Taken' = Taken
    BY <2>1 DEF Live, Taken
  <2> QED BY <1>2, <2>1, <2>2, Quiet DEF ClientInv
<1>3. CASE SenderPops
  <2>1. /\ ThreadStep /\ UNCHANGED <<receiver, keep_running, recv_queue, wire>>
        /\ UNCHANGED <<actions, last>>
    BY <1>3 DEF SenderPops, ThreadStep, mainVars, historyVars
  <2>2. /\ sending' \in Seq(Actions) /\ Len(sending') <= 1
        /\ send_queue' \in Seq(Actions) /\ sender' \in {"send", "ended"}
    <3>1. CASE send_queue # <<>>
      <4>1. Head(send_queue) \in Actions /\ Tail(send_queue) \in Seq(Actions)
        BY <3>1, HeadTailProperties DEF ClientInv, SeqTypes
      <4>2. sending' = <<Head(send_queue)>> /\ send_queue' = Tail(send_queue) /\ sender' = "send"
        BY <1>3, <3>1 DEF SenderPops
      <4> QED BY <4>1, <4>2
    <3>2. CASE send_queue = <<>>
      BY <1>3, <3>2 DEF SenderPops, ClientInv, SeqTypes, ThreadTypes
    <3> QED BY <3>1, <3>2
  <2>3. SeqTypes'
    BY <2>1, <2>2 DEF ClientInv, SeqTypes
  <2>4. Ahead' = Ahead
    BY <2>1 DEF Ahead
  <2> QED BY <1>1, <1>2, <2>1, <2>2, <2>3, <2>4 DEF ClientInv, ThreadTypes
<1>4. CASE SenderSends
  <2>1. /\ ThreadStep /\ sending' = <<>> /\ sender' \in {"pop", "ended"}
        /\ UNCHANGED <<receiver, keep_running, send_queue, recv_queue, wire>>
        /\ UNCHANGED <<actions, last>>
    BY <1>4 DEF SenderSends, Again, ThreadStep, mainVars, historyVars
  <2>2. SeqTypes' /\ Len(sending') <= 1
    BY <2>1, EmptySeq DEF ClientInv, SeqTypes
  <2>3. Ahead' = Ahead
    BY <2>1 DEF Ahead
  <2> QED BY <1>1, <1>2, <2>1, <2>2, <2>3 DEF ClientInv, ThreadTypes
<1>5. CASE Receive
  <2>1. /\ ThreadStep /\ receiver = "receive" /\ wire # <<>>
        /\ recv_queue' = Append(recv_queue, Head(wire)) /\ wire' = Tail(wire)
        /\ receiver' \in {"receive", "ended"}
        /\ UNCHANGED <<sender, keep_running, sending, send_queue>>
        /\ UNCHANGED <<actions, last>>
    BY <1>5 DEF Receive, Again, ThreadStep, mainVars, historyVars
  <2>2. /\ wire \in Seq(Message) /\ recv_queue \in Seq(Message)
        /\ Head(wire) \in Message /\ Tail(wire) \in Seq(Message)
    BY <2>1, HeadTailProperties DEF ClientInv, SeqTypes
  <2>3. SeqTypes'
    BY <2>1, <2>2, AppendProperties DEF ClientInv, SeqTypes
  <2>4. Ahead' = Ahead
    BY <2>1, <2>2, MoveHead DEF Ahead
  <2> QED BY <1>1, <1>2, <2>1, <2>3, <2>4 DEF ClientInv, ThreadTypes
<1>6. CASE ReceiveUnknown
  <2>1. /\ ThreadStep /\ receiver = "receive"
        /\ killed \/ (connection = "closed" /\ wire = <<>>)
        /\ recv_queue' \in {recv_queue, Append(recv_queue, UnknownAction)}
        /\ receiver' \in {"receive", "ended"}
        /\ UNCHANGED <<sender, keep_running, sending, send_queue, wire>>
        /\ UNCHANGED <<pc, stop_flag, actions, last, phase>>
    BY <1>6 DEF ReceiveUnknown, Again, ThreadStep, mainVars, historyVars
  <2>2. UnknownAction \in Message
    BY DEF UnknownAction, Message
  <2>3. SeqTypes'
    <3>1. recv_queue \in Seq(Message)
      BY DEF ClientInv, SeqTypes
    <3>2. recv_queue' \in Seq(Message)
      BY <2>1, <2>2, <3>1, AppendProperties
    <3> QED BY <2>1, <3>2 DEF ClientInv, SeqTypes
  <2>4. (Live' <=> Live) /\ Taken' = Taken
    BY <2>1 DEF Live, Taken
  <2>5. OrderKept'
    <3>1. CASE ~Live
      BY <2>4, <3>1 DEF OrderKept
    <3>2. CASE Live /\ recv_queue' = recv_queue
      BY <1>2, <2>1, <3>2 DEF Ahead
    <3>3. CASE Live /\ recv_queue' = Append(recv_queue, UnknownAction)
      <4>1. wire = <<>> /\ phase = "over" /\ phase' = "over"
        BY <2>1, <3>3 DEF ClientInv, Stages, Live, Before, After
      <4>2. Ahead = recv_queue /\ Ahead' = recv_queue'
        BY <2>1, <2>3, <4>1, ConcatEmptySeq DEF Ahead, ClientInv, SeqTypes
      <4>3. Follows(Newest(Taken, Ahead), UnknownAction)
        BY DEF Follows
      <4>4. Sent(UnknownAction)'
        BY <4>1 DEF Sent
      <4> QED BY <2>1, <2>2, <2>4, <3>3, <4>2, <4>3, <4>4, Sending DEF ClientInv
    <3> QED BY <2>1, <3>1, <3>2, <3>3
  <2> QED BY <1>1, <2>1, <2>3, <2>5 DEF ClientInv, ThreadTypes
<1>7. CASE ReceiveThrows
  <2>1. /\ ThreadStep /\ receiver = "receive" /\ receiver' = "ended"
        /\ UNCHANGED <<sender, keep_running, sending, send_queue, recv_queue, wire>>
        /\ UNCHANGED <<actions, last>>
    BY <1>7 DEF ReceiveThrows, ThreadStep, mainVars, historyVars
  <2>2. SeqTypes' /\ Ahead' = Ahead
    BY <2>1 DEF ClientInv, SeqTypes, Ahead
  <2> QED BY <1>1, <1>2, <2>1, <2>2 DEF ClientInv, ThreadTypes
<1> QED BY <1>3, <1>4, <1>5, <1>6, <1>7 DEF Sender, Receiver

LEMMA ClientStep == ClientInv /\ [Next]_vars => ClientInv'
<1> SUFFICES ASSUME ClientInv, [Next]_vars PROVE ClientInv'
  OBVIOUS
<1>1. CASE UNCHANGED vars
  <2>1. UNCHANGED <<formVars, viewVars, pc, stop_flag, actions, last, sender, receiver,
                    keep_running, sending, send_queue, send_closed, recv_queue, phase, killed,
                    connection, wire>>
    BY <1>1 DEF vars, mainVars, historyVars, threadVars, queueVars, netVars
  <2>2. FormsInv' /\ ViewTypeOK' /\ (Fresh => Fresh')
    BY <2>1, FormsKept, ViewKept, FreshKept DEF ClientInv
  <2>3. ThreadTypes' /\ SeqTypes'
    BY <2>1 DEF ClientInv, ThreadTypes, SeqTypes
  <2>4. (Live' <=> Live) /\ Taken' = Taken /\ Ahead' = Ahead
    BY <2>1 DEF Live, Taken, Ahead
  <2>5. Stages'
    BY <2>1, <2>2, <2>4 DEF ClientInv, Stages
  <2>6. OrderKept'
    BY <2>1, <2>4, Quiet DEF ClientInv
  <2> QED BY <2>2, <2>3, <2>5, <2>6 DEF ClientInv
<1>2. CASE Next
  BY <1>2, EnvironmentStep, MainStarts, LoopSteps, EndSteps, ThreadSteps DEF Next, Main
<1> QED BY <1>1, <1>2

LEMMA ClientHolds == Spec => []ClientInv
<1> QED BY ClientInit, ClientStep, PTL DEF Spec

\* The histories of the local player.
LEMMA HistoryTyped == Spec => []HistoryTypes
<1>1. Init => HistoryTypes
  BY DEF Init, HistoryTypes
<1>2. ASSUME HistoryTypes, [Next]_vars PROVE HistoryTypes'
  <2>1. CASE UNCHANGED <<local_player, missed>>
    BY <1>2, <2>1 DEF HistoryTypes
  <2>2. CASE UNCHANGED vars
    BY <2>1, <2>2 DEF vars, mainVars, historyVars
  <2>3. CASE UseWindow \/ Poll \/ ClickCrashes \/ Sender \/ Receiver \/ Environment
    BY <2>1, <2>3 DEF UseWindow, UserStep, mainVars, historyVars, Poll, ClickCrashes, Crash,
         Sender, SenderPops, SenderSends, Receiver, Receive, ReceiveUnknown, ReceiveThrows,
         ThreadStep, Environment, SendInformation, SendConfiguration, SendInitialSnapshot,
         SendShop, SendSnapshot, SendStats, SendMessage, SendEnd, Disconnect, Reset, ServerStep
  <2>4. CASE PrelobbyEnds \/ Connect \/ OpenLobby \/ LobbyEnds \/ SendRequest
             \/ ReadConfiguration \/ StartSender \/ StartReceiver
    BY <2>1, <2>4 DEF PrelobbyEnds, Connect, OpenLobby, LobbyEnds, SendRequest,
         ReadConfiguration, StartSender, StartReceiver, Steps, historyVars
  <2>5. CASE Push \/ DrainNull \/ RenderFrame \/ RenderNull
    BY <2>1, <2>5 DEF Push, DrainNull, RenderFrame, RenderNull, Crash, historyVars
  <2>6. CASE DrainMessage \/ Kill
    BY <1>2, <2>6 DEF DrainMessage, Kill, HistoryTypes
  <2>7. CASE DrainSnapshot
    <3>1. PICK update : TakeSnapshot(update)
      BY <2>7 DEF DrainSnapshot
    <3>2. (local_id \notin update.players) \in BOOLEAN
      OBVIOUS
    <3> QED BY <1>2, <3>1, <3>2 DEF TakeSnapshot, HistoryTypes
  <2>8. CASE StopSender \/ CloseQueue \/ StopReceiver \/ JoinSender \/ JoinReceiver
    BY <2>1, <2>8 DEF StopSender, CloseQueue, StopReceiver, JoinSender, JoinReceiver, EndStep,
         historyVars
  <2> QED BY <1>2, <2>2, <2>3, <2>4, <2>5, <2>6, <2>7, <2>8 DEF Next, Main
<1> QED BY <1>1, <1>2, PTL DEF Spec

\* Every reachable state of a client is well typed: among others, the obstacles
\* are added to the view of a match once at most.
THEOREM TypeCorrect == Spec => []TypeOK
<1>1. ClientInv /\ HistoryTypes => TypeOK
  <2> SUFFICES ASSUME ClientInv, HistoryTypes PROVE TypeOK
    OBVIOUS
  <2>1. FormsTypeOK
    BY FormsTyped DEF ClientInv
  <2>2. Range(actions \o send_queue \o sending) \subseteq Actions
    <3>1. actions \o send_queue \o sending \in Seq(Actions)
      BY ConcatProperties DEF ClientInv, SeqTypes
    <3> QED BY <3>1, RangeIn
  <2> QED BY <2>1, <2>2 DEF ClientInv, ThreadTypes, TypeOK, Actions, HistoryTypes
<1> QED BY <1>1, ClientHolds, HistoryTyped, PTL

-----------------------------------------------------------------------------
(* The request *)

\* Only the button makes a request.
LEMMA OnlySaved ==
  ASSUME [Next]_vars, info'.type \in {"CREATE", "JOIN"}, info' # info
  PROVE  saveDTO
<1>1. CASE UNCHANGED info
  BY <1>1
<1>2. CASE UseWindow
  BY <1>2 DEF UseWindow, FormsNext, guardarCampos, PreLobbySaveDTO, CloseWindow,
              guardarOperacion, guardarEquipo, Fill
<1>3. CASE info' = NoInfo
  BY <1>3 DEF NoInfo, UNKNOWN
<1>4. CASE UNCHANGED vars
  BY <1>1, <1>4 DEF vars, formVars
<1>5. CASE Poll \/ ClickCrashes \/ Environment \/ Sender \/ Receiver
  <2>1. UNCHANGED formVars
    BY <1>5 DEF Poll, LoopStep, ClickCrashes, Crash, Sender, SenderPops, SenderSends, Receiver, Receive,
           ReceiveUnknown, ReceiveThrows, ThreadStep, Environment, SendInformation,
           SendConfiguration, SendInitialSnapshot, SendShop, SendSnapshot, SendStats,
           SendMessage, SendEnd, Disconnect, Reset, ServerStep
  <2> QED BY <1>1, <2>1 DEF formVars
<1>6. CASE Main
  <2>1. CASE PrelobbyEnds \/ Connect \/ OpenLobby \/ LobbyEnds \/ SendRequest
             \/ ReadConfiguration \/ StartSender \/ StartReceiver
    BY <1>1, <1>3, <2>1 DEF formVars, PrelobbyEnds, Connect, OpenLobby, ShowLobby, LobbyEnds,
           SendRequest, ReadConfiguration, StartSender, StartReceiver
  <2>2. CASE Push \/ DrainMessage \/ DrainSnapshot \/ DrainNull \/ RenderFrame \/ RenderNull
    BY <1>1, <2>2 DEF formVars, Push, DrainMessage, DrainSnapshot, Taking, DrainNull,
           RenderFrame, RenderNull, Crash, LoopStep
  <2>3. CASE Kill \/ StopSender \/ CloseQueue \/ StopReceiver \/ JoinSender \/ JoinReceiver
    BY <1>1, <2>3 DEF formVars, Kill, StopSender, CloseQueue, StopReceiver, JoinSender,
           JoinReceiver, EndStep, Remain
  <2> QED BY <1>6, <2>1, <2>2, <2>3 DEF Main
<1> QED BY <1>2, <1>4, <1>5, <1>6 DEF Next

LEMMA Saved ==
  ASSUME FormsInv, saveDTO, info' # info
  PROVE  /\ info' = Shown
         /\ None \notin {info'.match, info'.player_skin}
         /\ info'.player_skin \in Skins(info'.player_type)
<1>1. PICK aux : aux = Read(info_aux)
  OBVIOUS
<1>2. aux = Read(info_aux) /\ info' = ToDTO(aux) /\ validarInfo(aux) /\ UNCHANGED ui
  BY <1>1 DEF saveDTO
<1>3. /\ aux \in Aux /\ aux.type = info_aux.type /\ aux.player_type = info_aux.player_type
      /\ aux.skin = (IF ui.typeSkin = None THEN UNKNOWN ELSE ui.typeSkin)
      /\ aux.type = "CREATE" =>
           /\ aux.mapSelected = ui.map /\ aux.matchName = ui.matchName
           /\ aux.numTerrorist = ui.numTerrorist /\ aux.numCounterTerrorist = ui.numCounter
      /\ aux.type = "JOIN" => aux.matchName = ui.partida
  BY <1>2, Reading
<1>4. aux.type # UNKNOWN /\ aux.player_type # UNKNOWN /\ aux.skin # UNKNOWN
  BY <1>2 DEF validarInfo
<1>5. aux.type = ui.operacion /\ aux.player_type = ui.equipo
  BY <1>3, <1>4 DEF FormsInv
<1>6. aux.skin = ui.typeSkin /\ ui.typeSkin # None /\ ui.typeSkin \in Skins(ui.equipo)
  BY <1>3, <1>4 DEF FormsInv
<1>7. CASE aux.type = "CREATE"
  <2>1. info' = Shown
    BY <1>2, <1>3, <1>5, <1>6, <1>7 DEF ToDTO, Shown
  <2>2. ui.matchName # None
    BY <1>2, <1>3, <1>7 DEF validarInfo
  <2> QED BY <1>5, <1>6, <1>7, <2>1, <2>2 DEF Shown
<1>8. CASE aux.type = "JOIN"
  <2>1. info' = Shown
    BY <1>2, <1>3, <1>5, <1>6, <1>8 DEF ToDTO, Shown
  <2>2. ui.partida # None
    BY <1>2, <1>3, <1>8 DEF validarInfo
  <2> QED BY <1>5, <1>6, <1>8, <2>1, <2>2 DEF Shown
<1> QED BY <1>3, <1>4, <1>7, <1>8 DEF Aux

\* The request a client sends is the one its form shows, complete, with a skin of its
\* team; of the two numbers, whatever was typed, it is the number modulo 65536.
THEOREM SentAsShownHolds == Spec => SentAsShown
<1>1. ClientInv /\ [Next]_vars =>
        [info'.type \in {"CREATE", "JOIN"} /\ info' # info =>
           /\ info' = Shown
           /\ None \notin {info'.match, info'.player_skin}
           /\ info'.player_skin \in Skins(info'.player_type)]_formVars
  BY OnlySaved, Saved DEF ClientInv
<1> QED BY <1>1, ClientHolds, PTL DEF SentAsShown, Spec

-----------------------------------------------------------------------------
(* The view *)

LEMMA BombResets ==
  ASSUME bomb_view \in BombViews, NEW after, after = BombReset(bomb_view)
  PROVE  after.exploding = FALSE /\ after.active = FALSE /\ after.dropped = bomb_view.dropped
BY DEF BombReset, BombViews

\* The entries after a snapshot.
LEMMA PlayersShown ==
  ASSUME NEW ids, players' = Without(UpdatePlayers(ids), Gone(ids))
  PROVE  /\ DOMAIN players' = (DOMAIN players \cup ids) \ Gone(ids)
         /\ ids \subseteq DOMAIN players' /\ ids \cap Gone(ids) = {}
         /\ \A i \in DOMAIN players' : \E j \in ids : uint8(i) = uint8(j)
         /\ \A i \in DOMAIN players' : players'[i] = "NULL" =>
              i \in DOMAIN players /\ players[i] = "NULL"
<1>1. /\ DOMAIN players' = (DOMAIN players \cup ids) \ Gone(ids)
      /\ \A i \in DOMAIN players' :
           players'[i] = IF i \in DOMAIN players THEN players[i] ELSE "view"
  BY DEF Without, UpdatePlayers
<1>2. ids \cap Gone(ids) = {}
  BY DEF Gone
<1>3. \A i \in DOMAIN players' : \E j \in ids : uint8(i) = uint8(j)
  BY <1>1 DEF Gone
<1>4. ASSUME NEW i \in DOMAIN players', players'[i] = "NULL"
      PROVE  i \in DOMAIN players /\ players[i] = "NULL"
  BY <1>1, <1>4
<1> QED BY <1>1, <1>2, <1>3, <1>4

LEMMA BombShown ==
  ASSUME bomb_view \in BombViews, NEW bombs \in Bombs, bomb_view' = UpdateBombs(bombs)
  PROVE  /\ bomb_view'.exploding \/ bomb_view'.active \/ bomb_view'.dropped => bombs.said # {}
         /\ "zero" \in bombs.said => bomb_view'.exploding
         /\ "ticking" \in bombs.said => bomb_view'.active
         /\ bombs.last # "none" => bomb_view'.dropped = (bombs.last = "dropped")
<1>1. CASE bombs.said = {}
  <2>1. bombs.last = "none"
    BY <1>1 DEF Bombs, OnFloor
  <2>2. PICK v \in BombViews : v = BombReset(bomb_view)
    BY BombTypes
  <2>3. v.exploding = FALSE /\ v.active = FALSE
    BY <2>2, BombResets
  <2>4. bomb_view' = [v EXCEPT !.dropped = FALSE]
    BY <1>1, <2>2 DEF UpdateBombs
  <2>5. bomb_view'.exploding = FALSE /\ bomb_view'.active = FALSE /\ bomb_view'.dropped = FALSE
    BY <2>3, <2>4 DEF BombViews
  <2> QED BY <1>1, <2>1, <2>5
<1>2. CASE bombs.said # {}
  <2>1. /\ bomb_view'.exploding = (bomb_view.exploding \/ "zero" \in bombs.said)
        /\ bomb_view'.active = (bomb_view.active \/ "ticking" \in bombs.said)
        /\ bomb_view'.dropped = IF bombs.last = "none" THEN bomb_view.dropped
                                                      ELSE bombs.last = "dropped"
    BY <1>2 DEF UpdateBombs
  <2> QED BY <1>2, <2>1
<1> QED BY <1>1, <1>2

\* What the snapshot says of the local player, and what it does to his flags.
LEMMA LocalShown ==
  ASSUME LocalInv, ViewTypeOK, ViewTypeOK', pc = "drain", pc' = pc,
         NEW update, TakeSnapshot(update),
         local_id \in update.players => local_player # "gone",
         ~UpdateCrashes(update.players)
  PROVE  /\ LocalInv'
         /\ ~missed' => is_alive' = (local_id \in DOMAIN players')
         /\ fov_view' = is_alive'
<1> DEFINE gone == Gone(update.players)
<1>1. /\ UpdateObjects(update)
      /\ local_player' = IF local_id \in update.players THEN "held" ELSE "gone"
      /\ missed' = IF local_player = "expected" THEN local_id \notin update.players ELSE missed
  BY DEF TakeSnapshot
<1>2. /\ DOMAIN players' = (DOMAIN players \cup update.players) \ gone
      /\ update.players \subseteq DOMAIN players' /\ update.players \cap gone = {}
      /\ \A i \in DOMAIN players' : players'[i] = "NULL" =>
           i \in DOMAIN players /\ players[i] = "NULL"
  BY <1>1, PlayersShown DEF UpdateObjects
<1>3. IF local_id \in gone THEN fov_view' = FALSE /\ is_alive' = FALSE
                           ELSE fov_view' = (fov_view \/ is_alive) /\ is_alive' = is_alive
  BY <1>1 DEF UpdateObjects
<1> HIDE DEF gone
<1>4. \A i \in DOMAIN players' : players'[i] = "NULL" => i = local_id /\ missed'
  <2> SUFFICES ASSUME NEW i \in DOMAIN players', players'[i] = "NULL"
               PROVE  i = local_id /\ missed'
    OBVIOUS
  <2>1. i \in DOMAIN players /\ players[i] = "NULL" /\ i = local_id /\ missed
    BY <1>2 DEF LocalInv
  <2>2. local_id \notin update.players
    BY <2>1 DEF UpdateCrashes
  <2> QED BY <1>1, <2>1, <2>2
<1>5. fov_view' = is_alive'
  <2>1. fov_view => is_alive
    BY DEF LocalInv
  <2>2. CASE local_id \in gone
    BY <1>3, <2>2
  <2>3. CASE local_id \notin gone /\ is_alive
    BY <1>3, <2>3
  <2>4. CASE local_id \notin gone /\ ~is_alive
    <3>1. is_alive = FALSE /\ fov_view = FALSE
      BY <2>1, <2>4 DEF ViewTypeOK
    <3> QED BY <1>3, <2>4, <3>1
  <2> QED BY <2>2, <2>3, <2>4
<1>6. ~is_alive' => local_player' = "gone" /\ local_id \notin DOMAIN players'
  <2>1. CASE local_id \in gone
    BY <1>1, <1>2, <2>1
  <2>2. CASE local_id \notin gone
    BY <1>1, <1>2, <1>3, <2>2 DEF LocalInv
  <2> QED BY <2>1, <2>2
<1>7. is_alive' /\ local_id \notin DOMAIN players' => missed'
  <2> SUFFICES ASSUME is_alive', local_id \notin DOMAIN players' PROVE missed'
    OBVIOUS
  <2>1. local_id \notin gone /\ is_alive
    BY <1>3
  <2>2. local_id \notin DOMAIN players /\ local_id \notin update.players
    BY <1>2, <2>1
  <2>3. missed \/ local_player = "expected"
    BY <2>1, <2>2 DEF LocalInv
  <2> QED BY <1>1, <2>2, <2>3
<1>8. LocalInv'
  BY <1>1, <1>4, <1>5, <1>6, <1>7 DEF LocalInv
<1>9. ~missed' => is_alive' = (local_id \in DOMAIN players')
  <2>1. is_alive' \in BOOLEAN
    BY DEF ViewTypeOK
  <2>2. ~missed' => (is_alive' <=> local_id \in DOMAIN players')
    BY <1>6, <1>7
  <2> QED BY <2>1, <2>2
<1> QED BY <1>5, <1>8, <1>9

\* What it does to the rest.
LEMMA SnapshotShown ==
  ASSUME ClientInv, ViewInv, ViewTypeOK', DrainSnapshot
  PROVE  ViewInv'
<1>1. PICK m \in Message : /\ pc = "drain" /\ recv_queue # <<>> /\ m = Head(recv_queue)
                           /\ last' = m /\ m.type = "UPDATE"
  BY NextMessage DEF DrainSnapshot, Taking
<1>2. PICK update \in Contents(m.static) : ~UpdateCrashes(update.players) /\ TakeSnapshot(update)
  BY <1>1 DEF DrainSnapshot
<1>3. /\ Taken = (IF last = UnknownAction THEN [type |-> "CONFIGURATION"] ELSE last)
      /\ Follows(Taken, m) /\ Live
  BY <1>1, NextMessage
<1>4. /\ update.bombs \in Bombs /\ (local_id \in update.players => local_player # "gone")
  BY <1>2 DEF Contents
<1>5. UpdateObjects(update) /\ held' = {update} /\ pc' = pc
  BY <1>2 DEF TakeSnapshot
<1>6. /\ LocalInv'
      /\ ~missed' => is_alive' = (local_id \in DOMAIN players')
      /\ fov_view' = is_alive'
  BY <1>1, <1>2, <1>4, <1>5, LocalShown DEF ClientInv, ViewInv
<1>7. HeldShown(update)'
  <2>1. bomb_view \in BombViews
    BY DEF ClientInv, ViewTypeOK, BombViews
  <2>2. /\ players' = Without(UpdatePlayers(update.players), Gone(update.players))
        /\ bomb_view' = UpdateBombs(update.bombs)
    BY <1>5 DEF UpdateObjects
  <2>3. /\ update.players \subseteq DOMAIN players'
        /\ \A i \in DOMAIN players' : \E j \in update.players : uint8(i) = uint8(j)
    BY <2>2, PlayersShown
  <2> QED BY <1>4, <2>1, <2>2, <2>3, BombShown DEF HeldShown
<1>8. ~shop_view' /\ ~stats_view' /\ ~game_ended'
  <2>1. shop_view' = FALSE /\ stats_view' = FALSE /\ game_ended' = game_ended
    BY <1>5 DEF UpdateObjects
  <2>2. CASE last = UnknownAction
    BY <1>3, <2>1, <2>2 DEF ClientInv, Stages, Fresh
  <2>3. CASE last # UnknownAction
    <3>1. last.type \in {"UPDATE", "SHOP", "STATS", "MESSAGE"}
      BY <1>3, <2>3 DEF ClientInv, SeqTypes, Stages, Message, UnknownAction, UNKNOWN
    <3>2. last.type \in {"UPDATE", "SHOP"}
      BY <1>1, <1>3, <2>3, <3>1 DEF Follows, UnknownAction, UNKNOWN
    <3>3. Shows(last)
      BY <1>1 DEF ViewInv, Frame
    <3> QED BY <2>1, <3>2, <3>3 DEF Shows
  <2> QED BY <2>2, <2>3
<1>9. Shows(m)'
  BY <1>1, <1>6, <1>8 DEF Shows
<1> QED BY <1>1, <1>5, <1>6, <1>7, <1>9 DEF ViewInv, Shows

LEMMA ViewUnchanged ==
  ASSUME ViewInv, UNCHANGED <<viewVars, last, held, local_player, missed>>,
         pc' \in Frame => pc \in Frame,
         pc' \in {"poll", "drain"} => pc \in {"poll", "drain"},
         pc' \in {"render", "crashed"} => pc' = pc /\ stop_flag' = stop_flag
  PROVE  ViewInv'
<1>1. LocalInv'
  BY DEF ViewInv, LocalInv, round_active, viewVars, overlayVars, flagVars
<1>2. \A update \in held' : HeldShown(update)'
  BY DEF ViewInv, HeldShown, viewVars
<1>3. pc' \in Frame => Shows(last)'
  BY DEF ViewInv, Shows, viewVars, overlayVars, flagVars
<1> QED BY <1>1, <1>2, <1>3 DEF ViewInv

\* The other messages of a match.
LEMMA OverlayShown ==
  ASSUME ClientInv, ViewInv, pc = "drain", recv_queue # <<>>, NEW m \in Message,
         m = Head(recv_queue), Take(m), m.type # "UPDATE"
  PROVE  /\ UNCHANGED <<players, fov_view>>
         /\ m.type = "SHOP" => is_alive' = TRUE /\ shop_view' = TRUE
         /\ m.type # "SHOP" => UNCHANGED is_alive
         /\ m.type = "STATS" => stats_view' = TRUE
         /\ m.type = "MESSAGE" => game_ended' = TRUE
         /\ pc' = IF m.type \in {"END", UNKNOWN} THEN "render" ELSE pc
         /\ m.type \in {"END", UNKNOWN} => stop_flag' = TRUE
         /\ Shows(m)'
<1>1. /\ Taken = (IF last = UnknownAction THEN [type |-> "CONFIGURATION"] ELSE last)
      /\ Follows(Taken, m)
      /\ m.type \in {"UPDATE", "SHOP", "STATS", "MESSAGE", "END", UNKNOWN}
  BY NextMessage
<1>2. Shows(last)
  BY DEF ViewInv, Frame
<1>3. /\ last = UnknownAction => Fresh
      /\ last # UnknownAction =>
           Follows(last, m) /\ last.type \in {"UPDATE", "SHOP", "STATS", "MESSAGE", "END"}
  <2>1. last = UnknownAction => Fresh
    BY DEF ClientInv, Stages, Live
  <2>2. last # UnknownAction => last.type \in {"UPDATE", "SHOP", "STATS", "MESSAGE", "END"}
    BY DEF ClientInv, Stages, SeqTypes, Message, UnknownAction, UNKNOWN
  <2> QED BY <1>1, <2>1, <2>2
<1>4. CASE m.type = "SHOP"
  <2>1. HandleShopAction /\ pc' = pc
    BY <1>4 DEF Take, UNKNOWN
  <2>2. last = UnknownAction \/ last.type \in {"UPDATE", "STATS"}
    BY <1>3, <1>4 DEF Follows, UnknownAction, UNKNOWN
  <2>3. ~game_ended
    BY <1>2, <1>3, <2>2 DEF Shows, Fresh
  <2>4. bomb_view'.active = FALSE
    <3>1. bomb_view \in BombViews
      BY DEF ClientInv, ViewTypeOK, BombViews
    <3> QED BY <2>1, <3>1, BombResets DEF HandleShopAction
  <2> QED BY <1>4, <2>1, <2>3, <2>4 DEF HandleShopAction, Shows, UNKNOWN
<1>5. CASE m.type = "STATS"
  <2>1. HandleStatsAction /\ pc' = pc
    BY <1>5 DEF Take, UNKNOWN
  <2>2. last = UnknownAction \/ last.type = "UPDATE"
    BY <1>3, <1>5 DEF Follows, UnknownAction, UNKNOWN
  <2>3. ~game_ended /\ ~shop_view
    BY <1>2, <1>3, <2>2 DEF Shows, Fresh
  <2> QED BY <1>5, <2>1, <2>3 DEF HandleStatsAction, Shows, UNKNOWN
<1>6. CASE m.type = "MESSAGE"
  <2>1. ShowEndBanner /\ pc' = pc
    BY <1>6 DEF Take, UNKNOWN
  <2>2. last = UnknownAction \/ last.type \in {"UPDATE", "STATS"}
    BY <1>3, <1>6 DEF Follows, UnknownAction, UNKNOWN
  <2>3. ~shop_view
    BY <1>2, <1>3, <2>2 DEF Shows, Fresh
  <2> QED BY <1>6, <2>1, <2>3 DEF ShowEndBanner, Shows, UNKNOWN
<1>7. CASE m.type \in {"END", UNKNOWN}
  <2>1. /\ UNCHANGED <<players, overlayVars, is_alive>>
        /\ pc' = "render" /\ stop_flag' = TRUE
    BY <1>7 DEF Take, UNKNOWN
  <2> QED BY <1>7, <2>1 DEF overlayVars, Shows, UNKNOWN
<1> QED BY <1>1, <1>4, <1>5, <1>6, <1>7

LEMMA MessageShown ==
  ASSUME ClientInv, ViewInv, DrainMessage
  PROVE  ViewInv'
<1>1. PICK m \in Message : m = Head(recv_queue)
  BY NextMessage DEF DrainMessage, Taking
<1>2. /\ pc = "drain" /\ recv_queue # <<>> /\ last' = m /\ Take(m) /\ m.type # "UPDATE"
      /\ local_player' = (IF m.type = "SHOP" THEN "expected" ELSE local_player)
      /\ held' = {} /\ UNCHANGED missed
      /\ m.type \in {"UPDATE", "SHOP", "STATS", "MESSAGE", "END", UNKNOWN}
  BY <1>1, NextMessage DEF DrainMessage, Taking
<1>3. /\ UNCHANGED <<players, fov_view>>
      /\ m.type = "SHOP" => is_alive' = TRUE /\ shop_view' = TRUE
      /\ m.type # "SHOP" => UNCHANGED is_alive
      /\ m.type = "STATS" => stats_view' = TRUE
      /\ m.type = "MESSAGE" => game_ended' = TRUE
      /\ pc' = IF m.type \in {"END", UNKNOWN} THEN "render" ELSE pc
      /\ m.type \in {"END", UNKNOWN} => stop_flag' = TRUE
      /\ Shows(m)'
  BY <1>1, <1>2, OverlayShown
<1>4. LocalInv
  BY DEF ViewInv
<1>5. /\ \A i \in DOMAIN players' : players'[i] = "NULL" => i = local_id /\ missed'
      /\ fov_view' => is_alive'
      /\ fov_view' /\ local_id \notin DOMAIN players' => missed'
      /\ is_alive' /\ local_id \notin DOMAIN players' => missed' \/ local_player' = "expected"
      /\ ~is_alive' => local_player' = "gone" /\ local_id \notin DOMAIN players'
  <2>1. CASE m.type = "SHOP"
    BY <1>2, <1>3, <1>4, <2>1 DEF LocalInv
  <2>2. CASE m.type # "SHOP"
    BY <1>2, <1>3, <1>4, <2>2 DEF LocalInv
  <2> QED BY <2>1, <2>2
<1>6. pc' \in {"poll", "drain"} => ~round_active'
  <2>1. CASE m.type \in {"END", UNKNOWN}
    BY <1>3, <2>1
  <2>2. CASE m.type \in {"SHOP", "STATS", "MESSAGE"}
    BY <1>3, <2>2 DEF round_active
  <2> QED BY <1>2, <2>1, <2>2
<1>7. /\ pc' = "render" => stop_flag'
      /\ pc' # "crashed"
  BY <1>2, <1>3
<1>8. LocalInv'
  BY <1>5, <1>6, <1>7 DEF LocalInv
<1> QED BY <1>2, <1>3, <1>8 DEF ViewInv, Shows

\* Where the client crashes, the local player was missed.
LEMMA CrashesMissed ==
  ASSUME ViewInv
  PROVE  /\ RenderCrashes => missed
         /\ \A ids : UpdateCrashes(ids) => missed
         /\ pc = "poll" /\ AttackCrashes => missed
<1>1. \A i \in DOMAIN players : players[i] = "NULL" => missed
  BY DEF ViewInv, LocalInv
<1>2. ASSUME pc = "poll", AttackCrashes PROVE missed
  <2>1. round_active /\ (local_id \in DOMAIN players => players[local_id] = "NULL")
    BY <1>2 DEF AttackCrashes, HasPlayer
  <2>2. is_alive /\ local_player # "expected"
    BY <1>2, <2>1 DEF round_active, ViewInv, LocalInv
  <2> QED BY <1>1, <2>1, <2>2 DEF ViewInv, LocalInv
<1> QED BY <1>1, <1>2 DEF RenderCrashes, UpdateCrashes

\* A view that was forgotten.
LEMMA ViewForgets ==
  ASSUME ViewForgotten, held' = {}, pc' \notin Frame, pc' = "crashed" => missed',
         missed' \/ local_player' = "expected"
  PROVE  ViewInv'
<1>1. DOMAIN players' = {} /\ fov_view' = FALSE /\ is_alive' = TRUE
  BY NoDomain DEF ViewForgotten
<1>2. LocalInv'
  BY <1>1 DEF LocalInv, Frame
<1> QED BY <1>2 DEF ViewInv

LEMMA RenderShown ==
  ASSUME ClientInv, ViewInv, RenderFrame
  PROVE  ViewInv'
<1>1. /\ pc \in {"drain", "render"} /\ Render /\ ~RenderCrashes
      /\ pc' = (IF stop_flag THEN "kill" ELSE "poll") /\ UNCHANGED stop_flag
      /\ held' = {} /\ UNCHANGED <<last, local_player, missed>>
  BY DEF RenderFrame, FrameReady
<1>2. UNCHANGED <<shop_view, stats_view, fov_view, show_waiting_lobby, game_ended, is_alive>>
  BY <1>1 DEF Render, overlayVars, flagVars
<1>3. /\ DOMAIN players' \subseteq DOMAIN players \cup {local_id}
      /\ DOMAIN players \subseteq DOMAIN players'
      /\ \A i \in DOMAIN players' : players'[i] = "NULL" => i = local_id /\ missed
      /\ local_id \in DOMAIN players' /\ local_id \notin DOMAIN players => fov_view /\ missed
  <2>1. CASE fov_view /\ local_id \notin DOMAIN players
    <3>1. players' = With(players, local_id, "NULL")
      BY <1>1, <2>1 DEF Render
    <3>2. /\ DOMAIN players' = DOMAIN players \cup {local_id}
          /\ \A i \in DOMAIN players' : players'[i] = IF i = local_id THEN "NULL" ELSE players[i]
      BY <3>1 DEF With
    <3>3. missed
      BY <2>1 DEF ViewInv, LocalInv
    <3> QED BY <2>1, <3>2, <3>3 DEF ViewInv, LocalInv
  <2>2. CASE ~(fov_view /\ local_id \notin DOMAIN players)
    <3>1. players' = players
      BY <1>1, <2>2 DEF Render
    <3> QED BY <3>1 DEF ViewInv, LocalInv
  <2> QED BY <2>1, <2>2
<1>4. LocalInv'
  <2>1. pc = "render" => stop_flag
    BY DEF ViewInv, LocalInv
  <2>2. pc' \in {"poll", "drain"} /\ local_player' = "expected" => ~round_active'
    <3>1. pc' \in {"poll", "drain"} => pc = "drain"
      BY <1>1, <2>1
    <3>2. pc = "drain" /\ local_player = "expected" => ~round_active
      BY DEF ViewInv, LocalInv
    <3>3. round_active' = round_active
      BY <1>2 DEF round_active
    <3> QED BY <1>1, <3>1, <3>2, <3>3
  <2>3. /\ fov_view' => is_alive'
        /\ fov_view' /\ local_id \notin DOMAIN players' => missed'
        /\ is_alive' /\ local_id \notin DOMAIN players' => missed' \/ local_player' = "expected"
    BY <1>1, <1>2, <1>3 DEF ViewInv, LocalInv
  <2>4. ~is_alive' => local_player' = "gone" /\ local_id \notin DOMAIN players'
    BY <1>1, <1>2, <1>3 DEF ViewInv, LocalInv
  <2>5. pc' \in {"kill", "poll"}
    BY <1>1
  <2> QED BY <1>1, <1>3, <2>2, <2>3, <2>4, <2>5 DEF LocalInv
<1>5. Shows(last)'
  <2>1. Shows(last)
    BY <1>1 DEF ViewInv, Frame
  <2>2. ~bomb_view.active => ~bomb_view'.active
    <3>1. bomb_view \in BombViews
      BY DEF ClientInv, ViewTypeOK, BombViews
    <3> QED BY <1>1, <3>1, BombResets DEF Render
  <2>3. ~missed' => (local_id \in DOMAIN players') = (local_id \in DOMAIN players)
    BY <1>1, <1>3
  <2> QED BY <1>1, <1>2, <2>1, <2>2, <2>3 DEF Shows
<1> QED BY <1>1, <1>4, <1>5 DEF ViewInv

LEMMA ViewStep ==
  ASSUME ClientInv, ViewInv, [Next]_vars, ClientInv'
  PROVE  ViewInv'
<1>1. CASE UNCHANGED vars
  BY <1>1, ViewUnchanged DEF vars, mainVars, historyVars
<1>2. CASE UseWindow \/ Poll
  <2>1. UNCHANGED <<viewVars, pc, stop_flag, last, held, local_player, missed>>
    BY <1>2 DEF UseWindow, UserStep, mainVars, historyVars, Poll
  <2> QED BY <2>1, ViewUnchanged
<1>3. CASE Push
  <2>1. /\ UNCHANGED <<viewVars, last, held, local_player, missed>>
        /\ pc = "poll" /\ pc' = "drain"
    BY <1>3 DEF Push, historyVars
  <2> QED BY <2>1, ViewUnchanged DEF Frame
<1>4. CASE PrelobbyEnds \/ Connect \/ OpenLobby \/ LobbyEnds \/ SendRequest
           \/ ReadConfiguration \/ StartSender
  <2>1. /\ UNCHANGED <<viewVars, last, held, local_player, missed>>
        /\ pc' \notin Frame \cup {"crashed"}
    BY <1>4 DEF PrelobbyEnds, Connect, OpenLobby, LobbyEnds, SendRequest, ReadConfiguration,
           StartSender, Steps, historyVars, Frame
  <2> QED BY <2>1, ViewUnchanged DEF Frame
<1>5. CASE StartReceiver
  <2>1. /\ UNCHANGED <<viewVars, last, held, local_player, missed>>
        /\ pc = "start_receiver" /\ pc' = "poll"
    BY <1>5 DEF StartReceiver, Steps, historyVars
  <2>2. last = UnknownAction /\ Fresh
    BY <2>1 DEF ClientInv, Stages, Before, Live
  <2>3. Shows(last)'
    BY <2>1, <2>2 DEF Shows, UnknownAction, UNKNOWN
  <2>4. ~round_active'
    BY <2>1, <2>2 DEF Fresh, round_active, viewVars, overlayVars, flagVars
  <2>5. LocalInv'
    BY <2>1, <2>4 DEF ViewInv, LocalInv, viewVars, overlayVars, flagVars
  <2>6. \A update \in held' : HeldShown(update)'
    BY <2>1 DEF ViewInv, HeldShown, viewVars
  <2> QED BY <2>3, <2>5, <2>6 DEF ViewInv
<1>6. CASE DrainMessage
  BY <1>6, MessageShown
<1>7. CASE DrainSnapshot
  BY <1>7, SnapshotShown DEF ClientInv
<1>8. CASE RenderFrame
  BY <1>8, RenderShown
<1>9. CASE ClickCrashes \/ DrainNull \/ RenderNull
  <2>1. Crash /\ missed
    BY <1>9, CrashesMissed DEF ClickCrashes, DrainNull, RenderNull
  <2>2. ViewForgotten /\ held' = {} /\ pc' \notin Frame /\ missed'
    BY <2>1 DEF Crash, Frame
  <2> QED BY <2>2, ViewForgets
<1>10. CASE Kill
  <2>1. ViewForgotten /\ held' = {} /\ pc' = "stop_sender" /\ local_player' = "expected"
    BY <1>10 DEF Kill
  <2> QED BY <2>1, ViewForgets DEF Frame
<1>11. CASE StopSender \/ CloseQueue \/ StopReceiver \/ JoinSender \/ JoinReceiver
  <2>1. /\ UNCHANGED <<viewVars, last, held, local_player, missed>>
        /\ pc' \notin Frame \cup {"crashed"}
    BY <1>11 DEF StopSender, CloseQueue, StopReceiver, JoinSender, JoinReceiver, EndStep,
           historyVars, Frame
  <2> QED BY <2>1, ViewUnchanged DEF Frame
<1>12. CASE Sender \/ Receiver
  <2>1. ThreadStep
    BY <1>12 DEF Sender, SenderPops, SenderSends, Receiver, Receive, ReceiveUnknown,
           ReceiveThrows
  <2> QED BY <2>1, ViewUnchanged DEF ThreadStep, mainVars, historyVars
<1>13. CASE Environment
  <2>1. ServerStep
    BY <1>13 DEF Environment, SendInformation, SendConfiguration, SendInitialSnapshot,
           SendShop, SendSnapshot, SendStats, SendMessage, SendEnd, Disconnect, Reset
  <2> QED BY <2>1, ViewUnchanged DEF ServerStep, mainVars, historyVars
<1> QED BY <1>1, <1>2, <1>3, <1>4, <1>5, <1>6, <1>7, <1>8, <1>9, <1>10, <1>11, <1>12, <1>13
        DEF Next, Main

LEMMA ViewHolds == Spec => [](ClientInv /\ ViewInv)
<1>1. Init => ViewInv
  BY NoDomain DEF Init, ViewInit, ViewInv, LocalInv, Frame
<1>2. ClientInv /\ ViewInv /\ [Next]_vars => ClientInv' /\ ViewInv'
  BY ClientStep, ViewStep
<1> QED BY <1>1, <1>2, ClientInit, PTL DEF Spec

\* No null pointer gets into the map of players, and a click finds the local player's
\* view, unless the first snapshot after a join or after a shop came without him.
THEOREM NoNullPlayerHolds == Spec => []NoNullPlayer
<1>1. ViewInv => NoNullPlayer
  BY CrashesMissed DEF NoNullPlayer, ViewInv, LocalInv
<1> QED BY <1>1, ViewHolds, PTL

\* Each message shows as it is taken, and each frame shows what the last one says.
THEOREM ShowsLastMessageHolds == Spec => []ShowsLastMessage
<1>1. ViewInv => ShowsLastMessage
  BY DEF ViewInv, HeldShown, Shows, ShowsLastMessage
<1> QED BY <1>1, ViewHolds, PTL

=============================================================================
