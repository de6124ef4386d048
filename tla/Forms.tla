--------------------------------- MODULE Forms ---------------------------------
(***************************************************************************)
(* The two windows a client shows before the match: PreLobby asks for the  *)
(* server (src/client/prelobby/prelobby.cpp), Lobby for what to do there   *)
(* (src/client/lobby/lobby.cpp).  Lobby keeps what its fields say twice:   *)
(* in the widgets, and in info_aux, which some slots write when a widget   *)
(* changes and saveDTO() writes when the button is pressed.                *)
(*                                                                         *)
(* A combo box is the text it shows; its first item, "Select...", cannot   *)
(* be chosen by the user and carries no data, which is None here.          *)
(***************************************************************************)
EXTENDS Integers

CONSTANTS
    mapas, partidas,        \* what INFORMATION listed
    MatchNames,             \* names a user types
    NumberTexts,            \* what toInt() makes of the texts a user types
    skinsTerrorist, skinsCounterTerrorist

VARIABLES
    window,         \* the window shown: "prelobby", "lobby" or "none"
    fields,         \* PreLobby's two fields have a text
    ui,             \* Lobby's widgets
    info_aux, info  \* Lobby's members; info is what getInfo() returns

formVars == <<window, fields, ui, info_aux, info>>

None == "none"
UNKNOWN == "UNKNOWN"

Skins(equipo) ==
    CASE equipo = "TERRORIST" -> skinsTerrorist
      [] equipo = "COUNTERTERRORIST" -> skinsCounterTerrorist
      [] OTHER -> {}

\* The constructor of ActionDTO takes numbers of 16 bits.
uint16(n) == n % 65536

NoInfo == [type |-> UNKNOWN]
EmptyUi == [operacion |-> None, map |-> None, matchName |-> None,
            numTerrorist |-> 0, numCounter |-> 0, partida |-> None,
            equipo |-> None, typeSkin |-> None]
EmptyAux == [type |-> UNKNOWN, mapSelected |-> None, matchName |-> None,
             numTerrorist |-> 0, numCounterTerrorist |-> 0,
             player_type |-> UNKNOWN, skin |-> UNKNOWN]

FormsTypeOK ==
    /\ window \in {"prelobby", "lobby", "none"}
    /\ fields \in BOOLEAN
    /\ ui \in [operacion : {None, "CREATE", "JOIN"}, map : mapas \cup {None},
               matchName : MatchNames \cup {None},
               numTerrorist : NumberTexts \cup {0}, numCounter : NumberTexts \cup {0},
               partida : partidas \cup {None},
               equipo : {None, "TERRORIST", "COUNTERTERRORIST"},
               typeSkin : Skins(ui.equipo) \cup {None}]
    /\ info_aux.type \in {UNKNOWN, "CREATE", "JOIN"}
    /\ info.type \in {UNKNOWN, "INIT", "CREATE", "JOIN"}

FormsInit ==
    /\ window = "prelobby" /\ fields = FALSE
    /\ ui = EmptyUi /\ info_aux = EmptyAux /\ info = NoInfo

(***************************************************************************)
(* PreLobby.                                                               *)
(***************************************************************************)
guardarCampos ==
    /\ window = "prelobby" /\ fields' = TRUE
    /\ UNCHANGED <<window, ui, info_aux, info>>

\* The button: nothing but a warning while a field is empty.
PreLobbySaveDTO ==
    /\ window = "prelobby" /\ fields
    /\ info' = [type |-> "INIT"] /\ window' = "none"
    /\ UNCHANGED <<fields, ui, info_aux>>

CloseWindow ==
    /\ window # "none" /\ window' = "none"
    /\ UNCHANGED <<fields, ui, info_aux, info>>

(***************************************************************************)
(* Lobby: what the user does to the widgets.                               *)
(***************************************************************************)
\* The constructor, with the lists of INFORMATION.
ShowLobby ==
    /\ window' = "lobby"
    /\ ui' = EmptyUi /\ info_aux' = EmptyAux /\ info' = NoInfo
    /\ UNCHANGED fields

\* Either list is cleared and filled again, back to its first item.
guardarOperacion(operacion) ==
    /\ window = "lobby" /\ ui.operacion # operacion
    /\ ui' = IF operacion = "CREATE"
               THEN [ui EXCEPT !.operacion = operacion, !.map = None]
               ELSE [ui EXCEPT !.operacion = operacion, !.partida = None]
    /\ info_aux' = [info_aux EXCEPT !.type = operacion]
    /\ UNCHANGED <<window, fields, info>>

\* Mutant: the list of skins keeps its choice when the team changes.
EquipoAlone(equipo) ==
    /\ window = "lobby" /\ ui.equipo # equipo
    /\ ui' = [ui EXCEPT !.equipo = equipo]
    /\ info_aux' = [info_aux EXCEPT !.player_type = equipo]
    /\ UNCHANGED <<window, fields, info>>

\* The skins of the other team are taken away.
guardarEquipo(equipo) ==
    /\ window = "lobby" /\ ui.equipo # equipo
    /\ ui' = [ui EXCEPT !.equipo = equipo, !.typeSkin = None]
    /\ info_aux' = [info_aux EXCEPT !.player_type = equipo]
    /\ UNCHANGED <<window, fields, info>>

\* No slot listens to the other widgets.
Fill ==
    /\ window = "lobby"
    /\ \/ \E skin \in Skins(ui.equipo) : ui' = [ui EXCEPT !.typeSkin = skin]
       \/ /\ ui.operacion = "CREATE"
          /\ \/ \E mapa \in mapas : ui' = [ui EXCEPT !.map = mapa]
             \/ \E name \in MatchNames \cup {None} : ui' = [ui EXCEPT !.matchName = name]
             \/ \E n \in NumberTexts : ui' = [ui EXCEPT !.numTerrorist = n]
             \/ \E n \in NumberTexts : ui' = [ui EXCEPT !.numCounter = n]
       \/ /\ ui.operacion = "JOIN"
          /\ \E partida \in partidas : ui' = [ui EXCEPT !.partida = partida]
    /\ UNCHANGED <<window, fields, info_aux, info>>

(***************************************************************************)
(* Lobby::saveDTO(): read the widgets, validate, and if all is well leave. *)
(***************************************************************************)
guardarMapa(aux) == [aux EXCEPT !.mapSelected = ui.map]
guardarNombrePartida(aux) == [aux EXCEPT !.matchName = ui.matchName]
guardarNumJugadores(aux) ==
    [aux EXCEPT !.numTerrorist = ui.numTerrorist, !.numCounterTerrorist = ui.numCounter]
guardarPartidaElegida(aux) == [aux EXCEPT !.matchName = ui.partida]
guardarTipoSkin(aux) ==
    [aux EXCEPT !.skin = IF ui.typeSkin = None THEN UNKNOWN ELSE ui.typeSkin]

Read(aux) ==
    guardarTipoSkin(
        CASE aux.type = "CREATE" -> guardarNumJugadores(guardarNombrePartida(guardarMapa(aux)))
          [] aux.type = "JOIN" -> guardarPartidaElegida(aux)
          [] OTHER -> aux)

validarInfo(aux) ==
    /\ aux.type # UNKNOWN
    /\ aux.type = "CREATE" => /\ aux.mapSelected # None /\ aux.matchName # None
                              /\ aux.numTerrorist # 0 /\ aux.numCounterTerrorist # 0
    /\ aux.type = "JOIN" => aux.matchName # None
    /\ aux.player_type # UNKNOWN /\ aux.skin # UNKNOWN

\* The constructors of ActionDTO for CREATE and for JOIN.
ToDTO(aux) ==
    IF aux.type = "CREATE"
      THEN [type |-> "CREATE", match |-> aux.matchName, map |-> aux.mapSelected,
            number_terrorist |-> uint16(aux.numTerrorist),
            number_counterterrorist |-> uint16(aux.numCounterTerrorist),
            player_type |-> aux.player_type, player_skin |-> aux.skin]
      ELSE [type |-> "JOIN", match |-> aux.matchName,
            player_type |-> aux.player_type, player_skin |-> aux.skin]

saveDTO ==
    /\ window = "lobby"
    /\ info_aux' = Read(info_aux)
    /\ IF validarInfo(info_aux') THEN info' = ToDTO(info_aux') /\ window' = "none"
                                 ELSE UNCHANGED <<info, window>>
    /\ UNCHANGED <<fields, ui>>

FormsNext ==
    \/ guardarCampos \/ PreLobbySaveDTO \/ CloseWindow
    \/ \E operacion \in {"CREATE", "JOIN"} : guardarOperacion(operacion)
    \/ \E equipo \in {"TERRORIST", "COUNTERTERRORIST"} : guardarEquipo(equipo)
    \/ Fill \/ saveDTO

(***************************************************************************)
(* Properties.                                                             *)
(***************************************************************************)
\* What the form shows, as a message.
Shown ==
    IF ui.operacion = "CREATE"
      THEN [type |-> "CREATE", match |-> ui.matchName, map |-> ui.map,
            number_terrorist |-> uint16(ui.numTerrorist),
            number_counterterrorist |-> uint16(ui.numCounter),
            player_type |-> ui.equipo, player_skin |-> ui.typeSkin]
      ELSE [type |-> "JOIN", match |-> ui.partida,
            player_type |-> ui.equipo, player_skin |-> ui.typeSkin]

\* However often the user changes his mind between creating and joining, between
\* the teams and between attempts the form refused, the request that leaves is
\* the one on the screen, complete, and its skin is one of its team.  Only the two
\* numbers may differ: any text that is not 0 passes the form, and the message
\* carries its number modulo 65536, which may be 0 or another side's size.
SentAsShown ==
    [][info'.type \in {"CREATE", "JOIN"} /\ info' # info =>
         /\ info' = Shown
         /\ None \notin {info'.match, info'.player_skin}
         /\ info'.player_skin \in Skins(info'.player_type)]_formVars

=============================================================================
