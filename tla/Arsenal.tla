------------------------------ MODULE Arsenal ------------------------------
(***************************************************************************)
(* Weapons, ammunition, money and health: what the classes Player, Weapon  *)
(* and WeaponShop keep, and what Game does with them through a match       *)
(* (src/common/player.cpp, weapon.cpp, weapon_shop.cpp, game.cpp).         *)
(*                                                                         *)
(* A round is a shopping phase and a game phase.  Who is near a weapon on  *)
(* the floor, whom a bullet or a knife hits and with what damage, how many *)
(* positions get_random_player_position() tries and who is on the winning  *)
(* side is chosen freely.  The bomb, the sides and the end of the match    *)
(* are in Game.tla and Match.tla.                                          *)
(***************************************************************************)
EXTENDS Integers, FiniteSets, Sequences

CONSTANTS
    Ids,               \* the ids the acceptor gives to clients
    Catalog,           \* models the shop view offers
    Price,             \* their prices in config.yaml
    MapWeapons,        \* models the map puts on the floor
    PlayerHealth,      \* health and money of config.yaml
    PlayerMoney,
    WeaponAmmo,        \* the default ammo of a Weapon
    AmmoAmounts,       \* amounts of ammo the shop view asks for
    Damages,           \* what a hit may take
    KILL_REWARD,
    ROUND_WON_REWARD,
    CheatAmount,       \* the 9999 of the three cheats
    Cheaters,          \* clients that type cheats
    Uint16,            \* 2^16
    MaxRounds,         \* bound: rounds played
    MaxActions,        \* bound: actions, hits and departures in all
    MaxTries,          \* bound: positions tried beyond one per player
    MaxWeaponId        \* bound: weapons built by the shop

UNKNOWN == "UNKNOWN"
GLOCK == "GLOCK"
KNIFE == "KNIFE"
AWP == "AWP"

WeaponModel == Catalog \cup {GLOCK, KNIFE, UNKNOWN}
Amount == 0 .. Uint16 - 1
Phases == {"lobby", "shopping", "game", "over"}

ASSUME ArsenalAssumption ==
    /\ IsFiniteSet(Ids)
    /\ {GLOCK, KNIFE, UNKNOWN} \cap Catalog = {}
    /\ Uint16 \in Nat
    /\ WeaponAmmo \in Amount
    /\ PlayerMoney \in Amount
    /\ PlayerHealth \in Amount \ {0}
    /\ CheatAmount \in Amount \ {0}
    /\ KILL_REWARD \in Nat
    /\ ROUND_WON_REWARD \in Nat
    /\ AmmoAmounts \subseteq Amount
    /\ Damages \subseteq Nat
    /\ Price \in [Catalog -> Amount]
    /\ MapWeapons \in Seq(Catalog)
    /\ MaxRounds \in Nat \ {0}
    /\ MaxActions \in Nat
    /\ MaxTries \in Nat
    /\ MaxWeaponId \in Amount
    /\ Len(MapWeapons) <= MaxWeaponId

VARIABLES
    phase,
    round_number,
    joined,            \* clients that were given a player: ids are not reused
    players,           \* ids in the map of living players
    dead_players,      \* ids in the map of dead players
    health, infinite_health,
    money, infinite_money,
    knife, primary_weapon, secondary_weapon,
    current,           \* the weapon the pointer points at
    weapons,           \* the map of weapons on the floor, by id
    next_weapon_id,    \* of the shop
    shots,             \* shooters of the bullets in flight and of the bursts
    stats_money,       \* stats.money
    earned,            \* history: rewards paid to a client
    unpaid,            \* history: rewards credited to one who was not living
    spent,             \* history: what a client was charged
    actions            \* counts against MaxActions

lives == <<joined, players, dead_players, health, infinite_health>>
books == <<earned, unpaid, spent>>
purses == <<money, infinite_money, stats_money, books>>
hands == <<knife, primary_weapon, secondary_weapon, current>>
shop == <<phase, round_number, next_weapon_id>>

vars == <<lives, purses, hands, weapons, shots, shop, actions>>

Act == actions < MaxActions /\ actions' = actions + 1

-----------------------------------------------------------------------------
(* One weapon *)

Weapon == [id: Nat, model: WeaponModel, ammo: Amount, infinite_ammo: BOOLEAN]

NewWeapon(id, model) ==
    [id |-> id, model |-> model, ammo |-> WeaponAmmo, infinite_ammo |-> FALSE]

NoWeapon == [id |-> 0, model |-> UNKNOWN, ammo |-> 0, infinite_ammo |-> FALSE]

\* A WeaponDTO has no place for infinite_ammo: a weapon built from it keeps
\* the ammo of the cheat and counts it from then on.
Dto(weapon) == [weapon EXCEPT !.infinite_ammo = FALSE]

AddAmmo(weapon, amount) == [weapon EXCEPT !.ammo = (@ + amount) % Uint16]

InfiniteAmmo(weapon) ==
    [weapon EXCEPT !.infinite_ammo = TRUE, !.ammo = CheatAmount]

\* A burst of AK47 and a cone of M3 take three rounds, a knife none.
Cost(weapon) == CASE weapon.infinite_ammo \/ weapon.model = KNIFE -> 0
                  [] weapon.model \in {GLOCK, AWP} -> 1
                  [] OTHER -> 3

\* Weapon::shoot() once the cooldown is over.
Fires(weapon) == weapon.ammo >= Cost(weapon)

Fired(weapon) == [weapon EXCEPT !.ammo = @ - Cost(weapon)]

-----------------------------------------------------------------------------
(* The shop, the players' hands and purses, and the floor *)

\* The shop builds n weapons.
NextIds(n) ==
    /\ next_weapon_id + n <= MaxWeaponId
    /\ next_weapon_id' = next_weapon_id + n

\* Mutant: the catalog is looked up and the price is not compared.
SellsWeaponOnCredit(model, id) == model \in Catalog

SellsWeapon(model, id) == model \in Catalog /\ money[id] >= Price[model]

SellsAmmo(amount, id) == money[id] >= amount

Charge(id, amount) ==
    /\ IF infinite_money[id] THEN UNCHANGED <<money, spent>>
       ELSE /\ money' = [money EXCEPT ![id] = (@ - amount) % Uint16]
            /\ spent' = [spent EXCEPT ![id] = @ + amount]
    /\ UNCHANGED <<infinite_money, stats_money, earned, unpaid>>

AddTo(purse, ids, amount) ==
    [id \in Ids |-> IF id \in ids THEN (purse[id] + amount) % Uint16
                    ELSE purse[id]]

\* add_money() of those who are paid, stats.money of those who are credited.
Reward(paid, credited, amount) ==
    /\ money' = AddTo(money, paid, amount)
    /\ stats_money' = AddTo(stats_money, credited, amount)
    /\ earned' = [id \in Ids |-> earned[id] + IF id \in paid THEN amount ELSE 0]
    /\ unpaid' = [id \in Ids |->
          unpaid[id] + IF id \in credited \ paid THEN amount ELSE 0]
    /\ UNCHANGED <<infinite_money, spent>>

\* create_weapon() of a player's primary weapon, nothing when he has none.
OnFloor(weapon) ==
    IF weapon.model = UNKNOWN THEN weapons
    ELSE [id \in DOMAIN weapons \cup {weapon.id} |->
              IF id = weapon.id THEN Dto(weapon) ELSE weapons[id]]

\* Mutant: the weapon that is taken stays on the floor.
SwapKeepingFloor(weapon, id) == OnFloor(weapon)

\* delete_weapon() of the one taken, create_weapon() of the one left.
Swap(weapon, id) == [other \in DOMAIN OnFloor(weapon) \ {id} |->
                         OnFloor(weapon)[other]]

Current(id) == CASE current[id] = "primary" -> primary_weapon[id]
                 [] current[id] = "secondary" -> secondary_weapon[id]
                 [] current[id] = "knife" -> knife[id]

-----------------------------------------------------------------------------
(* Players come and go *)

\* Weapons the shop builds for the temporary players that try the positions of
\* n players: a knife and a pistol each.
Tried(n) == {2 * (n + extra) : extra \in 0 .. MaxTries}

AddPlayer(id) ==
    /\ phase # "over"
    /\ id \notin joined
    /\ joined' = joined \cup {id}
    /\ players' = players \cup {id}
    /\ health' = [health EXCEPT ![id] = PlayerHealth]
    /\ money' = [money EXCEPT ![id] = PlayerMoney]
    /\ \E n \in Tried(1) :
          /\ NextIds(n + 2)
          /\ knife' = [knife EXCEPT
                ![id] = NewWeapon(next_weapon_id + n + 1, KNIFE)]
          /\ secondary_weapon' = [secondary_weapon EXCEPT
                ![id] = NewWeapon(next_weapon_id + n + 2, GLOCK)]
    /\ UNCHANGED <<phase, round_number, dead_players, infinite_health,
                   infinite_money, primary_weapon, current, weapons, shots,
                   stats_money, books, actions>>

\* quit(): the Player object goes with everything it holds.
Quit(id) ==
    /\ phase # "over"
    /\ Act
    /\ id \in players \cup dead_players
    /\ players' = players \ {id}
    /\ dead_players' = dead_players \ {id}
    /\ health' = [health EXCEPT ![id] = 0]
    /\ infinite_health' = [infinite_health EXCEPT ![id] = FALSE]
    /\ money' = [money EXCEPT ![id] = 0]
    /\ infinite_money' = [infinite_money EXCEPT ![id] = FALSE]
    /\ knife' = [knife EXCEPT ![id] = NoWeapon]
    /\ primary_weapon' = [primary_weapon EXCEPT ![id] = NoWeapon]
    /\ secondary_weapon' = [secondary_weapon EXCEPT ![id] = NoWeapon]
    /\ current' = [current EXCEPT ![id] = "secondary"]
    /\ UNCHANGED <<joined, stats_money, books, weapons, shots, shop>>

-----------------------------------------------------------------------------
(* The shopping phase *)

\* The weapon that was held is left on the floor; current is not looked at.
ShopWeapon(id, model) ==
    /\ phase = "shopping"
    /\ Act
    /\ id \in players
    /\ SellsWeapon(model, id)
    /\ NextIds(1)
    /\ Charge(id, Price[model])
    /\ primary_weapon' = [primary_weapon EXCEPT
          ![id] = NewWeapon(next_weapon_id + 1, model)]
    /\ weapons' = OnFloor(primary_weapon[id])
    /\ UNCHANGED <<lives, knife, secondary_weapon, current, shots, phase,
                   round_number>>

\* Ammo for the primary weapon is sold to a player who has none: the Weapon()
\* in its place takes it, and it goes with it.
ShopAmmo(id, amount) ==
    /\ phase = "shopping"
    /\ Act
    /\ id \in players
    /\ SellsAmmo(amount, id)
    /\ Charge(id, amount)
    /\ \/ /\ primary_weapon' = [primary_weapon EXCEPT ![id] = AddAmmo(@, amount)]
          /\ UNCHANGED secondary_weapon
       \/ /\ secondary_weapon' = [secondary_weapon EXCEPT
                ![id] = AddAmmo(@, amount)]
          /\ UNCHANGED primary_weapon
    /\ UNCHANGED <<lives, knife, current, weapons, shots, shop>>

StartMatch ==
    /\ phase = "lobby"
    /\ players # {}
    /\ phase' = "shopping"
    /\ UNCHANGED <<lives, purses, hands, weapons, shots, round_number,
                   next_weapon_id, actions>>

StartRound ==
    /\ phase = "shopping"
    /\ phase' = "game"
    /\ round_number' = round_number + 1
    /\ UNCHANGED <<lives, purses, hands, weapons, shots, next_weapon_id,
                   actions>>

-----------------------------------------------------------------------------
(* The game phase *)

ChangeWeapon(id) ==
    /\ phase = "game"
    /\ Act
    /\ id \in players
    /\ current' = [current EXCEPT
          ![id] = CASE @ = "primary" -> "secondary"
                    [] @ = "secondary" -> "knife"
                    [] @ = "knife" /\ primary_weapon[id].model # UNKNOWN -> "primary"
                    [] OTHER -> "secondary"]
    /\ UNCHANGED <<lives, purses, knife, primary_weapon, secondary_weapon,
                   weapons, shots, shop>>

PickUpWeapon(id) ==
    /\ phase = "game"
    /\ Act
    /\ id \in players
    /\ \E found \in DOMAIN weapons :
          /\ weapons' = Swap(primary_weapon[id], found)
          /\ primary_weapon' = [primary_weapon EXCEPT ![id] = weapons[found]]
    /\ UNCHANGED <<lives, purses, knife, secondary_weapon, current, shots, shop>>

ShootBullets(id) ==
    /\ phase = "game"
    /\ Act
    /\ id \in players
    /\ current[id] # "knife"
    /\ Fires(Current(id))
    /\ shots' = shots \cup {id}
    /\ IF current[id] = "primary"
       THEN /\ primary_weapon' = [primary_weapon EXCEPT ![id] = Fired(@)]
            /\ UNCHANGED secondary_weapon
       ELSE /\ secondary_weapon' = [secondary_weapon EXCEPT ![id] = Fired(@)]
            /\ UNCHANGED primary_weapon
    /\ UNCHANGED <<lives, purses, knife, current, weapons, shop>>

Wounded(victim, damage) ==
    IF infinite_health[victim] THEN health[victim]
    ELSE IF health[victim] > damage THEN health[victim] - damage
    ELSE 0

\* Mutant: the weapon drops and the pointer stays where it was.
DropWeaponsInHand(victim) ==
    /\ primary_weapon' = [primary_weapon EXCEPT ![victim] = NoWeapon]
    /\ weapons' = OnFloor(primary_weapon[victim])
    /\ UNCHANGED current

DropWeapons(victim) ==
    /\ primary_weapon' = [primary_weapon EXCEPT ![victim] = NoWeapon]
    /\ weapons' = OnFloor(primary_weapon[victim])
    /\ current' = [current EXCEPT ![victim] = "secondary"]

\* damage_player(), and the reward when the hit kills.  The shooter is looked
\* up among the living: one who is not there is paid nothing here, Game.tla has
\* what else the program may do then.
Damage(shooter, victim, damage) ==
    /\ health' = [health EXCEPT ![victim] = Wounded(victim, damage)]
    /\ IF Wounded(victim, damage) = 0
       THEN /\ DropWeapons(victim)
            /\ players' = players \ {victim}
            /\ dead_players' = dead_players \cup {victim}
            /\ Reward({shooter} \cap players', {shooter}, KILL_REWARD)
       ELSE UNCHANGED <<players, dead_players, primary_weapon, current, weapons,
                        purses>>
    /\ UNCHANGED <<joined, infinite_health, knife, secondary_weapon>>

\* A bullet hits; more of the same shooter may be on their way.
BulletHits(shooter, victim, damage) ==
    /\ phase = "game"
    /\ Act
    /\ shooter \in shots
    /\ victim \in players
    /\ shots' \in {shots, shots \ {shooter}}
    /\ Damage(shooter, victim, damage)
    /\ UNCHANGED shop

EmployKnife(id, victim, damage) ==
    /\ phase = "game"
    /\ Act
    /\ id \in players
    /\ current[id] = "knife"
    /\ victim \in players \ {id}
    /\ Damage(id, victim, damage)
    /\ UNCHANGED <<shots, shop>>

HealthCheat(id) ==
    /\ infinite_health' = [infinite_health EXCEPT ![id] = TRUE]
    /\ health' = [health EXCEPT ![id] = CheatAmount]
    /\ UNCHANGED <<joined, players, dead_players, purses, hands>>

AmmoCheat(id) ==
    /\ primary_weapon' = [primary_weapon EXCEPT ![id] = InfiniteAmmo(@)]
    /\ secondary_weapon' = [secondary_weapon EXCEPT ![id] = InfiniteAmmo(@)]
    /\ UNCHANGED <<lives, purses, knife, current>>

MoneyCheat(id) ==
    /\ infinite_money' = [infinite_money EXCEPT ![id] = TRUE]
    /\ money' = [money EXCEPT ![id] = CheatAmount]
    /\ UNCHANGED <<lives, stats_money, books, hands>>

Cheat(id) ==
    /\ phase = "game"
    /\ Act
    /\ id \in players \cap Cheaters
    /\ HealthCheat(id) \/ AmmoCheat(id) \/ MoneyCheat(id)
    /\ UNCHANGED <<weapons, shots, shop>>

\* update_stats() pays the living of the winning side, reset_players() cures
\* the dead and looks for a position for everyone, reset_bullets() leaves the
\* bursts alone.
EndRound(winners) ==
    /\ phase = "game"
    /\ Reward(winners, winners, ROUND_WON_REWARD)
    /\ players' = players \cup dead_players
    /\ dead_players' = {}
    /\ health' = [id \in Ids |-> IF id \in dead_players THEN PlayerHealth
                                 ELSE health[id]]
    /\ shots' \in SUBSET shots
    /\ \E n \in Tried(Cardinality(players')) : NextIds(n)
    /\ phase' = IF round_number = MaxRounds THEN "over" ELSE "shopping"
    /\ UNCHANGED <<joined, infinite_health, hands, weapons, round_number,
                   actions>>

-----------------------------------------------------------------------------

Init ==
    /\ phase = "lobby"
    /\ round_number = 0
    /\ joined = {}
    /\ players = {}
    /\ dead_players = {}
    /\ health = [id \in Ids |-> 0]
    /\ infinite_health = [id \in Ids |-> FALSE]
    /\ money = [id \in Ids |-> 0]
    /\ infinite_money = [id \in Ids |-> FALSE]
    /\ knife = [id \in Ids |-> NoWeapon]
    /\ primary_weapon = [id \in Ids |-> NoWeapon]
    /\ secondary_weapon = [id \in Ids |-> NoWeapon]
    /\ current = [id \in Ids |-> "secondary"]
    /\ weapons = [id \in 1 .. Len(MapWeapons) |-> NewWeapon(id, MapWeapons[id])]
    /\ next_weapon_id = Len(MapWeapons)
    /\ shots = {}
    /\ stats_money = [id \in Ids |-> 0]
    /\ earned = [id \in Ids |-> 0]
    /\ unpaid = [id \in Ids |-> 0]
    /\ spent = [id \in Ids |-> 0]
    /\ actions = 0

Next ==
    \/ StartMatch
    \/ StartRound
    \/ \E winners \in SUBSET players : EndRound(winners)
    \/ \E id \in Ids :
          \/ AddPlayer(id)
          \/ Quit(id)
          \/ \E model \in Catalog : ShopWeapon(id, model)
          \/ \E amount \in AmmoAmounts : ShopAmmo(id, amount)
          \/ ChangeWeapon(id)
          \/ PickUpWeapon(id)
          \/ ShootBullets(id)
          \/ \E victim \in Ids, damage \in Damages :
                \/ BulletHits(id, victim, damage)
                \/ EmployKnife(id, victim, damage)
          \/ Cheat(id)

Spec == Init /\ [][Next]_vars

-----------------------------------------------------------------------------
(* Properties *)

\* The weapons a player has: the knife and the pistol since he was created,
\* the primary one unless it is Weapon().
Held(id) == {"knife", "secondary"} \cup
            (IF primary_weapon[id].model = UNKNOWN THEN {} ELSE {"primary"})

\* Every variable has its type; the living have health and the dead have none;
\* the pointer current of a player points at a weapon he has.
TypeOK ==
    /\ phase \in Phases
    /\ round_number \in 0 .. MaxRounds
    /\ players \subseteq joined /\ joined \subseteq Ids
    /\ dead_players \subseteq joined /\ dead_players \cap players = {}
    /\ health \in [Ids -> Amount]
    /\ \A id \in joined : id \in players <=> health[id] > 0
    /\ infinite_health \in [Ids -> BOOLEAN]
    /\ money \in [Ids -> Amount]
    /\ infinite_money \in [Ids -> BOOLEAN]
    /\ stats_money \in [Ids -> Amount]
    /\ earned \in [Ids -> Nat]
    /\ unpaid \in [Ids -> Nat]
    /\ spent \in [Ids -> Nat]
    /\ knife \in [Ids -> Weapon]
    /\ primary_weapon \in [Ids -> Weapon]
    /\ secondary_weapon \in [Ids -> Weapon]
    /\ \A id \in Ids : current[id] \in Held(id)
    /\ \A id \in DOMAIN weapons : /\ weapons[id] \in Weapon
                                  /\ weapons[id].model # UNKNOWN
    /\ next_weapon_id \in 0 .. MaxWeaponId
    /\ shots \subseteq joined
    /\ actions \in 0 .. MaxActions

\* The primary weapons of the players who have one.
Armed == {id \in players \cup dead_players : primary_weapon[id].model # UNKNOWN}

\* Every weapon is in one place: whatever is bought, dropped by the dead, left
\* and taken, no two players hold a weapon with the same id, none that is held
\* lies on the floor, and the map finds each weapon under its own id.
OneKeeper ==
    /\ \A id \in DOMAIN weapons : weapons[id].id = id
    /\ \A id \in Armed : primary_weapon[id].id \notin DOMAIN weapons
    /\ \A id, other \in Armed :
          primary_weapon[id].id = primary_weapon[other].id => id = other

\* The balance of every player of the match is exact, to the 16 bits it has:
\* without the money cheat it is what he began with and the rewards he was paid
\* less what he was charged, he was never charged more than he had, and
\* stats.money is those rewards and the ones of a kill he did not live to be
\* paid.  Nothing else is ever added: the sum at the start of each round that
\* manual_de_usuario.md:79 promises is not in the code.
Solvent ==
    \A id \in players \cup dead_players :
        /\ stats_money[id] = (earned[id] + unpaid[id]) % Uint16
        /\ ~infinite_money[id] =>
              /\ spent[id] <= PlayerMoney + earned[id]
              /\ money[id] = (PlayerMoney + earned[id] - spent[id]) % Uint16

=============================================================================
