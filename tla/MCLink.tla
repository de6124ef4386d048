------------------------------- MODULE MCLink -------------------------------
(***************************************************************************)
(* Messages for the model checker: every kind, with bytes that tell the    *)
(* fields and their halves apart.                                          *)
(***************************************************************************)
EXTENDS Link

Objects ==
    {[type |-> "PLAYER", position |-> <<258, 3>>, id |-> 1029, player_type |-> 1,
      player_skin |-> 6, weapon_model |-> 4, health |-> 100, money |-> 2000,
      ammo |-> 300, angle |-> <<0, 0, 180, 66>>],
     [type |-> "BOMBZONE", position |-> <<0, 65535>>, width |-> 512, height |-> 7],
     [type |-> "OBSTACLE", position |-> <<1, 256>>, width |-> 32, height |-> 288, obstacle_type |-> 2],
     [type |-> "BOMB", position |-> <<4, 4>>, bomb_countdown |-> 65535],
     [type |-> "BULLET", position |-> <<1030, 6>>],
     [type |-> "WEAPON", position |-> <<5, 0>>, weapon_model |-> 3]}

Stats0 ==
    {[kills |-> k, deaths |-> k, money |-> k, last_winner |-> w, team_a_wins |-> 1, team_b_wins |-> 0] :
       k \in {[i \in {1} |-> 3], [i \in {1, 2} |-> i]}, w \in {0, 1}}

\* Each kind of object first, and last.
Updates ==
    {[type |-> "UPDATE", objects |-> os] :
       os \in {<<>>} \cup {<<o, CHOOSE p \in Objects : p.type = t>> :
                           o \in Objects, t \in {"BOMB"}}
                     \cup {SetToSeq(Objects)}}

Others ==
    {[type |-> "CONFIGURATION", terrain_type |-> 2, id |-> 258],
     [type |-> "END"],
     [type |-> "MESSAGE", winner_team_type |-> 1],
     [type |-> "SHOP", weapons |-> <<1, 2, 3, 4>>], [type |-> "SHOP", weapons |-> <<>>]}
    \cup {[type |-> "INFORMATION", matches |-> m, maps |-> n] :
             m \in {<<>>, <<<<109, 110>>, <<65>>>>}, n \in {<<<<109>>>>}}

AllServerMessages == Updates \cup Others
StatsMessages == [type : {"STATS"}, stats : Stats0]

AllClientMessages ==
    [type : {"CREATE"}, match : {<<109, 110>>}, map : {<<66>>, <<>>},
     number_terrorist : {1}, number_counterterrorist : {259},
     player_type : {0}, player_skin : {2}]
    \cup [type : {"JOIN"}, match : {<<>>, <<109, 110>>}, player_type : {1}, player_skin : {7}]
    \cup [type : {"MOVE"}, direction : {1}]
    \cup [type : {"SHOOT"}, desired_position : {<<258, 3>>}]
    \cup [type : {"WEAPON"}, weapon : {2}]
    \cup [type : {"AMMOPRIMARY", "AMMOSECONDARY"}, ammo : {257}]
    \cup [type : {"ROTATE"}, angle : {<<0, 0, 180, 194>>}]
    \cup [type : Simple]

ShortMessages == {[type |-> "END"], [type |-> "MOVE", direction |-> 1]}

=============================================================================
