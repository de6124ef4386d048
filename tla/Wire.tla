-------------------------------- MODULE Wire --------------------------------
(***************************************************************************)
(* What server and client put on the wire and read from it                 *)
(* (src/server/server_protocol.cpp, src/client/client_protocol.cpp,        *)
(* src/common/byte_converter.cpp).  Each end is translated from its own    *)
(* source: the serializers append fields, the deserializers read them at   *)
(* offsets, and nothing in the code ties the two together.                 *)
(*                                                                         *)
(* A message is a record; a byte a number below 256; a name a sequence of  *)
(* bytes; a float the sequence of its four bytes in memory (the build is   *)
(* little-endian).  Indices into data start at 0, as in the code.          *)
(***************************************************************************)
EXTENDS Naturals, Sequences, SequencesExt

ActionType ==
    [MOVE |-> 109, SHOOT |-> 115, BOMB |-> 102, QUIT |-> 113, UPDATE |-> 117,
     INFORMATION |-> 112, CONFIGURATION |-> 105, PICKUP |-> 112, END |-> 89,
     SHOP |-> 87, WEAPON |-> 86, AMMOPRIMARY |-> 85, AMMOSECONDARY |-> 84,
     CREATE |-> 66, JOIN |-> 67, CHANGE |-> 64, STATS |-> 157, START |-> 61,
     ROTATE |-> 45, INIT |-> 16, HEALTHCHEAT |-> 254, AMMOCHEAT |-> 253,
     MONEYCHEAT |-> 252, WINCHEAT |-> 251, MESSAGE |-> 238, UNKNOWN |-> 0]

ObjectType ==
    [BOMB |-> 0, BOMBZONE |-> 1, BULLET |-> 2, KNIFE |-> 3, PLAYER |-> 4,
     OBSTACLE |-> 5, WEAPON |-> 6, UNKNOWN |-> 7]

Unknown == [type |-> "UNKNOWN"]

(***************************************************************************)
(* Conversions.                                                            *)
(***************************************************************************)
\* Mutant: the low byte is not cut to a byte.
uint_16_to_hex_uncut(n) == <<(n \div 256) % 256, n>>

uint_16_to_hex_big_endian(n) == <<(n \div 256) % 256, n % 256>>

hex_big_endian_to_uint_16(hex) == 256 * hex[1] + hex[2]

float_to_hex_big_endian(memory) == Reverse(memory)

hex_big_endian_to_float(hex) == Reverse(hex)

\* A field of a given width in bytes, to the wire and back.
Encode(value, width) ==
    CASE width = 1 -> <<value>>
      [] width = 2 -> uint_16_to_hex_big_endian(value)
      [] width = 4 -> float_to_hex_big_endian(value)

Decode(hex) ==
    CASE Len(hex) = 1 -> hex[1]
      [] Len(hex) = 2 -> hex_big_endian_to_uint_16(hex)
      [] Len(hex) = 4 -> hex_big_endian_to_float(hex)

\* The fields of a record, one after the other.
Fields(record, layout) ==
    FlattenSeq([k \in DOMAIN layout |-> Encode(record[layout[k][1]], layout[k][2])])

\* data[i .. j - 1].  Reading past the end is undefined: it yields past.
Slice(data, i, j, past) ==
    [k \in 1 .. (j - i) |-> IF i + k <= Len(data) THEN data[i + k] ELSE past]

U16At(data, i) == hex_big_endian_to_uint_16(Slice(data, i, i + 2, 0))

(***************************************************************************)
(* The server's serializers.                                               *)
(***************************************************************************)
serialize_player ==
    <<<<"id", 2>>, <<"player_type", 1>>, <<"player_skin", 1>>, <<"weapon_model", 1>>,
      <<"health", 2>>, <<"money", 2>>, <<"ammo", 2>>, <<"angle", 4>>>>

serialize_bombzone == <<<<"width", 2>>, <<"height", 2>>>>

serialize_obstacle == <<<<"width", 2>>, <<"height", 2>>, <<"obstacle_type", 1>>>>

serialize_bomb == <<<<"bomb_countdown", 2>>>>

serialize_weapon == <<<<"weapon_model", 1>>>>

serialize_update(objects) ==
    LET body(object) ==
          CASE object.type = "PLAYER" -> Fields(object, serialize_player)
            [] object.type = "BOMBZONE" -> Fields(object, serialize_bombzone)
            [] object.type = "OBSTACLE" -> Fields(object, serialize_obstacle)
            [] object.type = "BOMB" -> Fields(object, serialize_bomb)
            [] object.type = "WEAPON" -> Fields(object, serialize_weapon)
            [] OTHER -> <<>>
        head(object) == <<ObjectType[object.type]>> \o Encode(object.position[1], 2)
                                                    \o Encode(object.position[2], 2)
    IN  FlattenSeq([k \in DOMAIN objects |-> head(objects[k]) \o body(objects[k])])

serialize_information(matches, maps) ==
    LET named(names) == FlattenSeq([k \in DOMAIN names |-> Encode(Len(names[k]), 2) \o names[k]])
    IN  Encode(Len(matches), 2) \o Encode(Len(maps), 2) \o named(matches) \o named(maps)

\* kills, deaths and money are functions of the players' ids, walked in order.
serialize_stats(stats) ==
    LET ids == SetToSortSeq(DOMAIN stats.kills, <)
        entry(id) == Encode(id, 2) \o Encode(stats.kills[id], 2)
                     \o Encode(stats.deaths[id], 2) \o Encode(stats.money[id], 2)
    IN  FlattenSeq([k \in DOMAIN ids |-> entry(ids[k])])
        \o <<stats.last_winner>> \o Encode(stats.team_a_wins, 2) \o Encode(stats.team_b_wins, 2)

server_serialize(m) ==
    <<ActionType[m.type]>> \o
    CASE m.type = "UPDATE" -> serialize_update(m.objects)
      [] m.type = "INFORMATION" -> serialize_information(m.matches, m.maps)
      [] m.type = "CONFIGURATION" -> <<m.terrain_type>> \o Encode(m.id, 2)
      [] m.type = "SHOP" -> m.weapons
      [] m.type = "STATS" -> serialize_stats(m.stats)
      [] m.type = "MESSAGE" -> <<m.winner_team_type>>
      [] m.type = "END" -> <<>>

(***************************************************************************)
(* The client's deserializers.  Offsets count from the object's type.      *)
(***************************************************************************)
deserialize_player ==
    [id |-> <<5, 7>>, player_type |-> <<7, 8>>, player_skin |-> <<8, 9>>,
     weapon_model |-> <<9, 10>>, health |-> <<10, 12>>, money |-> <<12, 14>>,
     ammo |-> <<14, 16>>, angle |-> <<16, 20>>]

deserialize_bombzone == [width |-> <<5, 7>>, height |-> <<7, 9>>]

deserialize_obstacle == [width |-> <<5, 7>>, height |-> <<7, 9>>, obstacle_type |-> <<9, 10>>]

deserialize_bomb == [bomb_countdown |-> <<5, 7>>]

deserialize_bullet == [none \in {} |-> <<>>]

deserialize_weapon == [weapon_model |-> <<5, 6>>]

\* Each type's fields, and how far i is moved on.
Readers ==
    [PLAYER |-> <<deserialize_player, 20>>, BOMBZONE |-> <<deserialize_bombzone, 9>>,
     OBSTACLE |-> <<deserialize_obstacle, 10>>, BOMB |-> <<deserialize_bomb, 7>>,
     BULLET |-> <<deserialize_bullet, 5>>, WEAPON |-> <<deserialize_weapon, 6>>]

deserialize_update(data) ==
    LET typeAt(i) == CHOOSE t \in DOMAIN ObjectType : ObjectType[t] = data[i + 1]
        read(i, span) == Decode(Slice(data, i + span[1], i + span[2], 0))
        object(i, t) ==
            [type |-> t, position |-> <<read(i, <<1, 3>>), read(i, <<3, 5>>)>>]
            @@ [f \in DOMAIN Readers[t][1] |-> read(i, Readers[t][1][f])]
        from[i \in 0 .. Len(data) + 20] ==
            IF i >= Len(data) THEN <<>>
            ELSE IF typeAt(i) \in DOMAIN Readers
                 THEN <<object(i, typeAt(i))>> \o from[i + Readers[typeAt(i)][2]]
                 ELSE from[i + 1]
    IN  [type |-> "UPDATE", objects |-> from[0]]

\* count names from i on, each behind its length: the names and where they end.
Names(data, i, count) ==
    FoldLeft(LAMBDA acc, j : LET size == U16At(data, acc[2])
                             IN  <<Append(acc[1], SubSeq(data, acc[2] + 3, acc[2] + 2 + size)),
                                   acc[2] + 2 + size>>,
             <<<<>>, i>>, [j \in 1 .. count |-> j])

deserialize_information(data) ==
    LET matches == Names(data, 4, U16At(data, 0))
        maps == Names(data, matches[2], U16At(data, 2))
    IN  [type |-> "INFORMATION", matches |-> matches[1], maps |-> maps[1]]

deserialize_configuration(data) ==
    [type |-> "CONFIGURATION", terrain_type |-> data[1], id |-> U16At(data, 1)]

\* One entry per 8 bytes of all the data, the score included, then the score.
deserialize_stats(data, past) ==
    LET size == Len(data)
        starts == {i \in 0 .. size - 1 : i % 8 = 0}
        u16(i, j) == hex_big_endian_to_uint_16(Slice(data, i, j, past))
        ids == {u16(i, i + 2) : i \in starts}
        last(id) == CHOOSE i \in starts : /\ u16(i, i + 2) = id
                                          /\ \A k \in starts : u16(k, k + 2) = id => k <= i
        column(offset) == [id \in ids |-> u16(last(id) + offset, last(id) + offset + 2)]
    IN  [type |-> "STATS",
         stats |-> [kills |-> column(2), deaths |-> column(4), money |-> column(6),
                    last_winner |-> data[size - 4],
                    team_a_wins |-> u16(size - 3, size - 1),
                    team_b_wins |-> u16(size - 1, size + 1)]]

\* What receive_and_deserialize_action() makes of a whole frame.
client_deserialize(code, data, past) ==
    CASE code = ActionType.UPDATE -> deserialize_update(data)
      [] code = ActionType.INFORMATION -> deserialize_information(data)
      [] code = ActionType.CONFIGURATION -> deserialize_configuration(data)
      [] code = ActionType.END -> [type |-> "END"]
      [] code = ActionType.MESSAGE -> [type |-> "MESSAGE", winner_team_type |-> data[Len(data)]]
      [] code = ActionType.SHOP -> [type |-> "SHOP", weapons |-> data]
      [] code = ActionType.STATS -> deserialize_stats(data, past)
      [] OTHER -> Unknown

(***************************************************************************)
(* The client's serializers.                                               *)
(***************************************************************************)
Simple == {"BOMB", "CHANGE", "START", "PICKUP", "QUIT",
           "HEALTHCHEAT", "AMMOCHEAT", "MONEYCHEAT", "WINCHEAT"}

serialize_create(m) ==
    Encode(Len(m.match), 2) \o m.match \o m.map
    \o Encode(m.number_terrorist, 2) \o Encode(m.number_counterterrorist, 2)
    \o <<m.player_type, m.player_skin>>

serialize_join(m) == m.match \o <<m.player_type, m.player_skin>>

client_serialize(m) ==
    <<ActionType[m.type]>> \o
    CASE m.type = "CREATE" -> serialize_create(m)
      [] m.type = "JOIN" -> serialize_join(m)
      [] m.type = "MOVE" -> <<m.direction>>
      [] m.type = "SHOOT" -> Encode(m.desired_position[1], 2) \o Encode(m.desired_position[2], 2)
      [] m.type = "WEAPON" -> <<m.weapon>>
      [] m.type \in {"AMMOPRIMARY", "AMMOSECONDARY"} -> Encode(m.ammo, 2)
      [] m.type = "ROTATE" -> Encode(m.angle, 4)
      [] m.type \in Simple -> <<>>

(***************************************************************************)
(* The server's deserializers: data holds the code too, and id is the      *)
(* client's, kept by the protocol object.                                  *)
(***************************************************************************)
deserialize_create(data) ==
    LET size == Len(data)
        match_size == U16At(data, 1)
    IN  [type |-> "CREATE",
         match |-> SubSeq(data, 4, 3 + match_size),
         map |-> SubSeq(data, 4 + match_size, size - 6),
         number_terrorist |-> U16At(data, size - 6),
         number_counterterrorist |-> U16At(data, size - 4),
         player_type |-> data[size - 1], player_skin |-> data[size]]

\* Mutant: the name of the match takes a byte of the side.
deserialize_join_one_more(data) ==
    LET size == Len(data)
    IN  [type |-> "JOIN", match |-> SubSeq(data, 2, size - 1),
         player_type |-> data[size - 1], player_skin |-> data[size]]

deserialize_join(data) ==
    LET size == Len(data)
    IN  [type |-> "JOIN", match |-> SubSeq(data, 2, size - 2),
         player_type |-> data[size - 1], player_skin |-> data[size]]

deserialize_shoot(data, id) ==
    [type |-> "SHOOT", desired_position |-> <<U16At(data, 1), U16At(data, 3)>>, id |-> id]

deserialize_ammo(type, data, id) ==
    [type |-> type, ammo |-> U16At(data, 1), id |-> id,
     weapon_type |-> IF type = "AMMOPRIMARY" THEN "PRIMARY" ELSE "SECONDARY"]

deserialize_rotate(data, id) ==
    [type |-> "ROTATE", angle |-> Decode(Slice(data, 1, 5, 0)), id |-> id]

deserialize_simple(code, id) ==
    [type |-> CHOOSE t \in Simple : ActionType[t] = code, id |-> id]

server_deserialize(data, id) ==
    LET code == data[1]
    IN  CASE code = ActionType.CREATE -> deserialize_create(data)
          [] code = ActionType.JOIN -> deserialize_join(data)
          [] code = ActionType.MOVE -> [type |-> "MOVE", direction |-> data[2], id |-> id]
          [] code = ActionType.SHOOT -> deserialize_shoot(data, id)
          [] code = ActionType.WEAPON -> [type |-> "WEAPON", weapon |-> data[2], id |-> id]
          [] code = ActionType.AMMOPRIMARY -> deserialize_ammo("AMMOPRIMARY", data, id)
          [] code = ActionType.AMMOSECONDARY -> deserialize_ammo("AMMOSECONDARY", data, id)
          [] code = ActionType.ROTATE -> deserialize_rotate(data, id)
          [] code \in {ActionType[t] : t \in Simple} -> deserialize_simple(code, id)
          [] OTHER -> Unknown

=============================================================================
