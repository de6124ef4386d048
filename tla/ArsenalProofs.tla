--------------------------- MODULE ArsenalProofs ---------------------------
(***************************************************************************)
(* Theorems about weapons and purses, for any players, catalog, prices,    *)
(* amounts and widths.                                                     *)
(***************************************************************************)
EXTENDS Arsenal, FiniteSetTheorems, TLAPS

-----------------------------------------------------------------------------
(* Amounts and weapons *)

LEMMA Width == Uint16 \in Nat \ {0}
BY ArsenalAssumption DEF ArsenalAssumption, Amount

\* The counters are as wide as the code's and wrap.
LEMMA Wraps ==
  ASSUME NEW n \in Int
  PROVE  n % Uint16 \in Amount
BY Width DEF Amount

LEMMA ModelsDiffer == {UNKNOWN} \cap (Catalog \cup {GLOCK, KNIFE}) = {}
BY ArsenalAssumption DEF ArsenalAssumption, UNKNOWN, GLOCK, KNIFE

LEMMA NewWeaponType ==
  ASSUME NEW n \in Nat, NEW model \in WeaponModel
  PROVE  NewWeapon(n, model) \in Weapon
BY ArsenalAssumption DEF ArsenalAssumption, NewWeapon, Weapon

LEMMA NoWeaponType == NoWeapon \in Weapon
BY Width DEF NoWeapon, Weapon, WeaponModel, Amount

LEMMA WeaponChanges ==
  ASSUME NEW weapon \in Weapon
  PROVE  /\ Dto(weapon) \in Weapon
         /\ Dto(weapon).id = weapon.id /\ Dto(weapon).model = weapon.model
         /\ InfiniteAmmo(weapon) \in Weapon
         /\ InfiniteAmmo(weapon).id = weapon.id /\ InfiniteAmmo(weapon).model = weapon.model
         /\ \A amount \in Amount : /\ AddAmmo(weapon, amount) \in Weapon
                                   /\ AddAmmo(weapon, amount).id = weapon.id
                                   /\ AddAmmo(weapon, amount).model = weapon.model
         /\ Fires(weapon) => /\ Fired(weapon) \in Weapon
                             /\ Fired(weapon).id = weapon.id
                             /\ Fired(weapon).model = weapon.model
<1>1. Dto(weapon) \in Weapon /\ Dto(weapon).id = weapon.id /\ Dto(weapon).model = weapon.model
  BY DEF Dto, Weapon
<1>2. /\ InfiniteAmmo(weapon) \in Weapon
      /\ InfiniteAmmo(weapon).id = weapon.id /\ InfiniteAmmo(weapon).model = weapon.model
  BY ArsenalAssumption DEF ArsenalAssumption, InfiniteAmmo, Weapon
<1>3. ASSUME NEW amount \in Amount
      PROVE  /\ AddAmmo(weapon, amount) \in Weapon
             /\ AddAmmo(weapon, amount).id = weapon.id
             /\ AddAmmo(weapon, amount).model = weapon.model
  <2>1. (weapon.ammo + amount) % Uint16 \in Amount
    <3>1. weapon.ammo + amount \in Int
      BY Width DEF Weapon, Amount
    <3> QED BY <3>1, Wraps
  <2> QED BY <2>1 DEF AddAmmo, Weapon
<1>4. ASSUME Fires(weapon)
      PROVE  /\ Fired(weapon) \in Weapon
             /\ Fired(weapon).id = weapon.id /\ Fired(weapon).model = weapon.model
  <2>1. Cost(weapon) \in {0, 1, 3}
    BY DEF Cost
  <2>2. weapon.ammo - Cost(weapon) \in Amount
    BY <1>4, <2>1, Width DEF Fires, Weapon, Amount
  <2> QED BY <2>2 DEF Fired, Weapon
<1> QED BY <1>1, <1>2, <1>3, <1>4

LEMMA AddToType ==
  ASSUME NEW purse \in [Ids -> Amount], NEW ids, NEW amount \in Nat
  PROVE  AddTo(purse, ids, amount) \in [Ids -> Amount]
<1>1. ASSUME NEW id \in Ids
      PROVE  (purse[id] + amount) % Uint16 \in Amount
  <2>1. purse[id] + amount \in Int
    BY Width DEF Amount
  <2> QED BY <2>1, Wraps
<1> QED BY <1>1 DEF AddTo

-----------------------------------------------------------------------------
(* The parts of the invariant *)

Lives ==
    /\ players \subseteq joined /\ joined \subseteq Ids
    /\ dead_players \subseteq joined /\ dead_players \cap players = {}
    /\ health \in [Ids -> Amount]
    /\ \A id \in joined : id \in players <=> health[id] > 0
    /\ infinite_health \in [Ids -> BOOLEAN]

Purses ==
    /\ money \in [Ids -> Amount] /\ stats_money \in [Ids -> Amount]
    /\ infinite_money \in [Ids -> BOOLEAN]
    /\ earned \in [Ids -> Nat] /\ unpaid \in [Ids -> Nat] /\ spent \in [Ids -> Nat]

Hands ==
    /\ knife \in [Ids -> Weapon] /\ primary_weapon \in [Ids -> Weapon]
    /\ secondary_weapon \in [Ids -> Weapon]
    /\ current \in [Ids -> {"knife", "primary", "secondary"}]
    /\ \A id \in Ids : current[id] \in Held(id)

Floor == \A id \in DOMAIN weapons : weapons[id] \in Weapon /\ weapons[id].model # UNKNOWN

\* A round is begun only while there are rounds left.
Clock ==
    /\ phase \in Phases /\ round_number \in 0 .. MaxRounds
    /\ phase = "lobby" => round_number = 0
    /\ phase = "shopping" => round_number < MaxRounds
    /\ next_weapon_id \in 0 .. MaxWeaponId
    /\ shots \subseteq joined
    /\ actions \in 0 .. MaxActions

Carrying == {id \in Ids : primary_weapon[id].model # UNKNOWN}

\* Every weapon has a number the shop has given, and nobody else's.
Numbered ==
    /\ \A id \in DOMAIN weapons : weapons[id].id = id /\ id <= next_weapon_id
    /\ \A id \in Carrying : /\ primary_weapon[id].id \notin DOMAIN weapons
                            /\ primary_weapon[id].id <= next_weapon_id
    /\ \A id, other \in Carrying :
          primary_weapon[id].id = primary_weapon[other].id => id = other

\* The inductive invariant.
ArsenalInv ==
    Lives /\ Purses /\ Hands /\ Floor /\ Clock /\ Numbered
    /\ Carrying \subseteq players \cup dead_players

LEMMA InvGivesTypeOK == ArsenalInv => TypeOK
BY DEF ArsenalInv, Lives, Purses, Hands, Floor, Clock, TypeOK

LEMMA InvGivesOneKeeper == ArsenalInv => OneKeeper
BY DEF ArsenalInv, Lives, Numbered, OneKeeper, Armed, Carrying

LEMMA ChargeStep ==
  ASSUME Purses, NEW id \in Ids, NEW amount \in Amount, Charge(id, amount)
  PROVE  Purses'
<1>1. money[id] - amount \in Int /\ spent[id] + amount \in Nat
  BY Width DEF Purses, Amount
<1>2. (money[id] - amount) % Uint16 \in Amount
  BY <1>1, Wraps
<1> QED BY <1>1, <1>2 DEF Charge, Purses

LEMMA RewardStep ==
  ASSUME Purses, NEW paid, NEW credited, NEW amount \in Nat,
         Reward(paid, credited, amount)
  PROVE  Purses'
<1>1. money' \in [Ids -> Amount] /\ stats_money' \in [Ids -> Amount]
  BY AddToType DEF Reward, Purses
<1>2. \A id \in Ids : /\ earned[id] + amount \in Nat /\ earned[id] + 0 \in Nat
                      /\ unpaid[id] + amount \in Nat /\ unpaid[id] + 0 \in Nat
  BY DEF Purses
<1> QED BY <1>1, <1>2 DEF Reward, Purses

LEMMA ActClock ==
  ASSUME Act, actions \in 0 .. MaxActions
  PROVE  actions' \in 0 .. MaxActions
BY ArsenalAssumption DEF ArsenalAssumption, Act

\* Nothing is taken, left or built that Numbered would see.
LEMMA WeaponsStay ==
  ASSUME Numbered, Floor, weapons' = weapons,
         next_weapon_id \in Nat, next_weapon_id' \in Nat, next_weapon_id <= next_weapon_id',
         primary_weapon \in [Ids -> Weapon],
         \A id \in Ids : /\ primary_weapon'[id].id = primary_weapon[id].id
                         /\ primary_weapon'[id].model = primary_weapon[id].model
  PROVE  Numbered' /\ Carrying' = Carrying
<1>1. Carrying' = Carrying
  BY DEF Carrying
<1>2. \A id \in Carrying : primary_weapon[id].id \in Nat
  BY DEF Carrying, Weapon
<1>3. \A id \in DOMAIN weapons : id \in Nat
  BY DEF Numbered, Floor, Weapon
<1>4. \A id \in DOMAIN weapons : weapons[id].id = id /\ id <= next_weapon_id'
  BY <1>3 DEF Numbered
<1> QED BY <1>1, <1>2, <1>4 DEF Numbered, Carrying

-----------------------------------------------------------------------------
(* The actions *)

LEMMA InitStep == Init => ArsenalInv
<1> SUFFICES ASSUME Init PROVE ArsenalInv
  OBVIOUS
<1>1. NoWeapon \in Weapon /\ NoWeapon.model = UNKNOWN
  BY NoWeaponType DEF NoWeapon
<1>2. Lives /\ Purses
  BY Width DEF Init, Lives, Purses, Amount
<1>3. Hands
  BY <1>1 DEF Init, Hands, Held
<1>4. ASSUME NEW id \in DOMAIN weapons
      PROVE  /\ weapons[id] \in Weapon /\ weapons[id].model # UNKNOWN
             /\ weapons[id].id = id /\ id <= next_weapon_id
  <2>1. id \in 1 .. Len(MapWeapons) /\ id \in Nat /\ next_weapon_id = Len(MapWeapons)
        /\ weapons[id] = NewWeapon(id, MapWeapons[id])
    BY <1>4, ArsenalAssumption DEF Init, ArsenalAssumption
  <2>2. MapWeapons[id] \in Catalog
    BY <2>1, ArsenalAssumption DEF ArsenalAssumption
  <2>3. weapons[id] \in Weapon
    BY <2>1, <2>2, NewWeaponType DEF WeaponModel
  <2>4. weapons[id].model # UNKNOWN /\ weapons[id].id = id
    BY <2>1, <2>2, ModelsDiffer DEF NewWeapon
  <2> QED BY <2>1, <2>3, <2>4
<1>5. Carrying = {}
  BY <1>1 DEF Init, Carrying
<1>6. Clock
  BY ArsenalAssumption DEF ArsenalAssumption, Init, Clock, Phases, Amount
<1> QED BY <1>2, <1>3, <1>4, <1>5, <1>6 DEF ArsenalInv, Floor, Numbered

LEMMA AddPlayerStep ==
  ASSUME ArsenalInv, NEW id \in Ids, AddPlayer(id)
  PROVE  ArsenalInv'
<1>1. PICK n \in Tried(1) :
         /\ NextIds(n + 2)
         /\ knife' = [knife EXCEPT ![id] = NewWeapon(next_weapon_id + n + 1, KNIFE)]
         /\ secondary_weapon' = [secondary_weapon EXCEPT
               ![id] = NewWeapon(next_weapon_id + n + 2, GLOCK)]
  BY DEF AddPlayer
<1>2. n \in Nat
  BY <1>1, ArsenalAssumption DEF ArsenalAssumption, Tried
<1>3. /\ next_weapon_id \in Nat /\ next_weapon_id' \in 0 .. MaxWeaponId
      /\ next_weapon_id <= next_weapon_id'
  BY <1>1, <1>2, ArsenalAssumption DEF ArsenalAssumption, ArsenalInv, Clock, NextIds, Amount
<1>4. Lives'
  BY ArsenalAssumption DEF ArsenalAssumption, AddPlayer, ArsenalInv, Lives, Amount
<1>5. Purses'
  BY ArsenalAssumption DEF ArsenalAssumption, AddPlayer, books, ArsenalInv, Purses
<1>6. Hands'
  <2>1. /\ NewWeapon(next_weapon_id + n + 1, KNIFE) \in Weapon
        /\ NewWeapon(next_weapon_id + n + 2, GLOCK) \in Weapon
    BY <1>2, <1>3, NewWeaponType DEF WeaponModel
  <2> QED BY <1>1, <2>1 DEF AddPlayer, ArsenalInv, Hands, Held
<1>7. Floor' /\ Clock'
  BY <1>3 DEF AddPlayer, ArsenalInv, Floor, Clock
<1>8. Numbered' /\ Carrying' = Carrying
  BY <1>3, WeaponsStay DEF AddPlayer, ArsenalInv, Hands, Amount
<1> QED BY <1>4, <1>5, <1>6, <1>7, <1>8 DEF AddPlayer, ArsenalInv

LEMMA QuitStep ==
  ASSUME ArsenalInv, NEW id \in Ids, Quit(id)
  PROVE  ArsenalInv'
<1>1. NoWeapon \in Weapon /\ NoWeapon.model = UNKNOWN
  BY NoWeaponType DEF NoWeapon
<1>2. Lives'
  BY Width DEF Quit, ArsenalInv, Lives, Amount
<1>3. Purses'
  BY Width DEF Quit, books, ArsenalInv, Purses, Amount
<1>4. Hands'
  BY <1>1 DEF Quit, ArsenalInv, Hands, Held
<1>5. Floor' /\ Clock'
  BY ActClock DEF Quit, shop, ArsenalInv, Floor, Clock
<1>6. /\ Carrying' = Carrying \ {id}
      /\ \A other \in Carrying' : primary_weapon'[other] = primary_weapon[other]
  BY <1>1 DEF Quit, ArsenalInv, Hands, Carrying
<1>7. Numbered'
  BY <1>6 DEF Quit, shop, ArsenalInv, Numbered
<1> QED BY <1>2, <1>3, <1>4, <1>5, <1>6, <1>7 DEF Quit, ArsenalInv

LEMMA ShopWeaponStep ==
  ASSUME ArsenalInv, NEW id \in Ids, NEW model \in Catalog, ShopWeapon(id, model)
  PROVE  ArsenalInv'
<1> DEFINE bought == NewWeapon(next_weapon_id + 1, model)
<1>1. /\ next_weapon_id \in Nat /\ next_weapon_id' = next_weapon_id + 1
      /\ next_weapon_id' \in 0 .. MaxWeaponId
  BY ArsenalAssumption DEF ArsenalAssumption, ShopWeapon, NextIds, ArsenalInv, Clock, Amount
<1>2. bought \in Weapon /\ bought.model # UNKNOWN /\ bought.id = next_weapon_id + 1
  <2>1. bought \in Weapon
    BY <1>1, NewWeaponType DEF WeaponModel
  <2> QED BY <2>1, ModelsDiffer DEF NewWeapon
<1>3. /\ primary_weapon' = [primary_weapon EXCEPT ![id] = bought]
      /\ primary_weapon \in [Ids -> Weapon] /\ weapons' = OnFloor(primary_weapon[id])
  BY DEF ShopWeapon, ArsenalInv, Hands
<1>4. Lives'
  BY DEF ShopWeapon, lives, ArsenalInv, Lives
<1>5. Purses'
  <2>1. Price[model] \in Amount
    BY ArsenalAssumption DEF ArsenalAssumption
  <2> QED BY <2>1, ChargeStep DEF ShopWeapon, ArsenalInv
<1>6. Hands'
  BY <1>2, <1>3 DEF ShopWeapon, ArsenalInv, Hands, Held
<1>7. Clock'
  BY <1>1, ActClock DEF ShopWeapon, lives, ArsenalInv, Clock
<1>8. /\ Dto(primary_weapon[id]) \in Weapon
      /\ Dto(primary_weapon[id]).id = primary_weapon[id].id
      /\ Dto(primary_weapon[id]).model = primary_weapon[id].model
  BY <1>3, WeaponChanges
<1>9. /\ Carrying' = Carrying \cup {id}
      /\ \A other \in Carrying' : other # id => primary_weapon'[other] = primary_weapon[other]
      /\ primary_weapon'[id].id = next_weapon_id + 1
  BY <1>2, <1>3 DEF Carrying
<1>10. \A other \in DOMAIN weapons :
          /\ weapons[other].id = other /\ other \in Nat /\ other <= next_weapon_id
          /\ weapons[other] \in Weapon /\ weapons[other].model # UNKNOWN
  BY DEF ArsenalInv, Floor, Numbered, Weapon
<1>11. \A other \in Carrying : primary_weapon[other].id \in Nat
                               /\ primary_weapon[other].id <= next_weapon_id
  BY <1>3 DEF ArsenalInv, Numbered, Carrying, Weapon
<1>12. CASE id \in Carrying
  <2>1. weapons' = [other \in DOMAIN weapons \cup {primary_weapon[id].id} |->
                      IF other = primary_weapon[id].id THEN Dto(primary_weapon[id])
                      ELSE weapons[other]]
    BY <1>3, <1>12 DEF OnFloor, Carrying
  <2>2. Floor'
    BY <1>8, <1>10, <1>12, <2>1 DEF Floor, Carrying
  <2>3. \A other \in DOMAIN weapons' : weapons'[other].id = other /\ other \in Nat
                                       /\ other <= next_weapon_id
    BY <1>8, <1>10, <1>11, <1>12, <2>1
  <2>4. \A other \in Carrying' : /\ primary_weapon'[other].id \notin DOMAIN weapons'
                                 /\ primary_weapon'[other].id <= next_weapon_id'
    BY <1>1, <1>9, <1>10, <1>11, <1>12, <2>1, <2>3 DEF ArsenalInv, Numbered
  <2>5. Numbered'
    BY <1>1, <1>9, <1>11, <2>3, <2>4 DEF ArsenalInv, Numbered
  <2> QED BY <1>4, <1>5, <1>6, <1>7, <1>9, <2>2, <2>5 DEF ShopWeapon, lives, ArsenalInv
<1>13. CASE id \notin Carrying
  <2>1. weapons' = weapons
    BY <1>3, <1>13 DEF OnFloor, Carrying
  <2>2. Floor'
    BY <1>10, <2>1 DEF Floor
  <2>3. \A other \in DOMAIN weapons' : weapons'[other].id = other /\ other <= next_weapon_id'
    BY <1>1, <1>10, <2>1
  <2>4. \A other \in Carrying' : /\ primary_weapon'[other].id \notin DOMAIN weapons'
                                 /\ primary_weapon'[other].id <= next_weapon_id'
    BY <1>1, <1>9, <1>10, <1>11, <2>1 DEF ArsenalInv, Numbered
  <2>5. Numbered'
    BY <1>1, <1>9, <1>11, <1>13, <2>3, <2>4 DEF ArsenalInv, Numbered
  <2> QED BY <1>4, <1>5, <1>6, <1>7, <1>9, <2>2, <2>5 DEF ShopWeapon, lives, ArsenalInv
<1> QED BY <1>12, <1>13

LEMMA ShopAmmoStep ==
  ASSUME ArsenalInv, NEW id \in Ids, NEW amount \in AmmoAmounts, ShopAmmo(id, amount)
  PROVE  ArsenalInv'
<1>1. amount \in Amount
  BY ArsenalAssumption DEF ArsenalAssumption
<1>2. /\ AddAmmo(primary_weapon[id], amount) \in Weapon
      /\ AddAmmo(primary_weapon[id], amount).id = primary_weapon[id].id
      /\ AddAmmo(primary_weapon[id], amount).model = primary_weapon[id].model
      /\ AddAmmo(secondary_weapon[id], amount) \in Weapon
  BY <1>1, WeaponChanges DEF ArsenalInv, Hands
<1>3. /\ primary_weapon' \in [Ids -> Weapon] /\ secondary_weapon' \in [Ids -> Weapon]
      /\ \A other \in Ids : /\ primary_weapon'[other].id = primary_weapon[other].id
                            /\ primary_weapon'[other].model = primary_weapon[other].model
  BY <1>2 DEF ShopAmmo, ArsenalInv, Hands
<1>4. Hands'
  BY <1>3 DEF ShopAmmo, ArsenalInv, Hands, Held
<1>5. Lives' /\ Floor'
  BY DEF ShopAmmo, lives, ArsenalInv, Lives, Floor
<1>6. Purses'
  BY <1>1, ChargeStep DEF ShopAmmo, ArsenalInv
<1>7. Clock'
  BY ActClock DEF ShopAmmo, lives, shop, ArsenalInv, Clock
<1>8. Numbered' /\ Carrying' = Carrying
  BY <1>3, WeaponsStay DEF ShopAmmo, shop, ArsenalInv, Hands, Clock
<1> QED BY <1>4, <1>5, <1>6, <1>7, <1>8 DEF ShopAmmo, lives, ArsenalInv

LEMMA PhaseStep ==
  ASSUME ArsenalInv, StartMatch \/ StartRound
  PROVE  ArsenalInv'
<1>1. /\ UNCHANGED <<lives, purses, hands, weapons, shots, next_weapon_id, actions>>
      /\ round_number' \in {round_number, round_number + 1}
  BY DEF StartMatch, StartRound
<1>2. Clock'
  <2>1. CASE StartMatch
    BY <1>1, <2>1, ArsenalAssumption
       DEF ArsenalAssumption, StartMatch, ArsenalInv, Clock, Phases, lives
  <2>2. CASE StartRound
    BY <1>1, <2>2, ArsenalAssumption
       DEF ArsenalAssumption, StartRound, ArsenalInv, Clock, Phases, lives
  <2> QED BY <2>1, <2>2
<1>3. Lives' /\ Purses' /\ Floor' /\ Numbered' /\ Carrying' = Carrying
  BY <1>1 DEF lives, purses, books, hands, ArsenalInv, Lives, Purses, Floor, Numbered, Carrying
<1>4. Hands'
  BY <1>1 DEF hands, ArsenalInv, Hands, Held
<1> QED BY <1>1, <1>2, <1>3, <1>4 DEF lives, ArsenalInv

LEMMA ChangeWeaponStep ==
  ASSUME ArsenalInv, NEW id \in Ids, ChangeWeapon(id)
  PROVE  ArsenalInv'
<1>1. Lives' /\ Purses' /\ Floor'
  BY DEF ChangeWeapon, lives, purses, books, ArsenalInv, Lives, Purses, Floor
<1>2. Clock'
  BY ActClock DEF ChangeWeapon, lives, shop, ArsenalInv, Clock
<1>3. Numbered' /\ Carrying' = Carrying
  BY WeaponsStay DEF ChangeWeapon, shop, ArsenalInv, Hands, Clock
<1>4. Hands'
  <2>1. PICK next \in {"knife", "primary", "secondary"} :
           /\ current' = [current EXCEPT ![id] = next]
           /\ next = "primary" => primary_weapon[id].model # UNKNOWN
    BY DEF ChangeWeapon, ArsenalInv, Hands
  <2>2. next \in Held(id)
    BY <2>1 DEF Held
  <2> QED BY <2>1, <2>2 DEF ChangeWeapon, ArsenalInv, Hands, Held
<1> QED BY <1>1, <1>2, <1>3, <1>4 DEF ChangeWeapon, lives, ArsenalInv

LEMMA PickUpWeaponStep ==
  ASSUME ArsenalInv, NEW id \in Ids, PickUpWeapon(id)
  PROVE  ArsenalInv'
<1>1. PICK found \in DOMAIN weapons :
         /\ weapons' = Swap(primary_weapon[id], found)
         /\ primary_weapon' = [primary_weapon EXCEPT ![id] = weapons[found]]
  BY DEF PickUpWeapon
<1>2. \A other \in DOMAIN weapons :
         /\ weapons[other].id = other /\ other \in Nat /\ other <= next_weapon_id
         /\ weapons[other] \in Weapon /\ weapons[other].model # UNKNOWN
  BY DEF ArsenalInv, Floor, Numbered, Weapon
<1>3. primary_weapon \in [Ids -> Weapon]
  BY DEF ArsenalInv, Hands
<1>4. \A other \in Carrying : /\ primary_weapon[other].id \in Nat
                              /\ primary_weapon[other].id <= next_weapon_id
                              /\ primary_weapon[other].id \notin DOMAIN weapons
  BY <1>3 DEF ArsenalInv, Numbered, Carrying, Weapon
<1>5. Lives' /\ Purses'
  BY DEF PickUpWeapon, lives, purses, books, ArsenalInv, Lives, Purses
<1>6. Clock'
  BY ActClock DEF PickUpWeapon, lives, shop, ArsenalInv, Clock
<1>7. Hands'
  BY <1>1, <1>2 DEF PickUpWeapon, ArsenalInv, Hands, Held
<1>8. /\ Carrying' = Carrying \cup {id}
      /\ \A other \in Carrying' : other # id => primary_weapon'[other] = primary_weapon[other]
      /\ primary_weapon'[id].id = found
  BY <1>1, <1>2, <1>3 DEF Carrying
<1>9. /\ Dto(primary_weapon[id]) \in Weapon
      /\ Dto(primary_weapon[id]).id = primary_weapon[id].id
      /\ Dto(primary_weapon[id]).model = primary_weapon[id].model
  BY <1>3, WeaponChanges
<1>10. \A other \in DOMAIN weapons' :
          \/ other \in DOMAIN weapons \ {found} /\ weapons'[other] = weapons[other]
          \/ /\ id \in Carrying /\ other = primary_weapon[id].id
             /\ weapons'[other] = Dto(primary_weapon[id])
  <2>1. CASE id \in Carrying
    <3>1. OnFloor(primary_weapon[id]) =
             [other \in DOMAIN weapons \cup {primary_weapon[id].id} |->
                 IF other = primary_weapon[id].id THEN Dto(primary_weapon[id])
                 ELSE weapons[other]]
      BY <2>1 DEF OnFloor, Carrying
    <3> QED BY <1>1, <2>1, <3>1 DEF Swap
  <2>2. CASE id \notin Carrying
    <3>1. OnFloor(primary_weapon[id]) = weapons
      BY <2>2 DEF OnFloor, Carrying
    <3> QED BY <1>1, <3>1 DEF Swap
  <2> QED BY <2>1, <2>2
<1>11. Floor' /\ \A other \in DOMAIN weapons' : weapons'[other].id = other
                                                /\ other <= next_weapon_id'
  BY <1>2, <1>4, <1>9, <1>10 DEF Floor, Carrying, PickUpWeapon, shop
<1>12. \A other \in Carrying' : /\ primary_weapon'[other].id \notin DOMAIN weapons'
                                /\ primary_weapon'[other].id <= next_weapon_id'
  BY <1>2, <1>4, <1>8, <1>10 DEF PickUpWeapon, shop, ArsenalInv, Numbered
<1>13. \A one, other \in Carrying' :
          primary_weapon'[one].id = primary_weapon'[other].id => one = other
  BY <1>1, <1>4, <1>8 DEF ArsenalInv, Numbered
<1>14. Numbered'
  BY <1>11, <1>12, <1>13 DEF Numbered
<1> QED BY <1>5, <1>6, <1>7, <1>8, <1>11, <1>14 DEF PickUpWeapon, lives, ArsenalInv

LEMMA ShootBulletsStep ==
  ASSUME ArsenalInv, NEW id \in Ids, ShootBullets(id)
  PROVE  ArsenalInv'
<1>1. /\ primary_weapon' \in [Ids -> Weapon] /\ secondary_weapon' \in [Ids -> Weapon]
      /\ \A other \in Ids : /\ primary_weapon'[other].id = primary_weapon[other].id
                            /\ primary_weapon'[other].model = primary_weapon[other].model
  <2>1. CASE current[id] = "primary"
    <3>1. Fires(primary_weapon[id])
      BY <2>1 DEF ShootBullets, Current
    <3> QED BY <2>1, <3>1, WeaponChanges DEF ShootBullets, ArsenalInv, Hands
  <2>2. CASE current[id] = "secondary"
    <3>1. Fires(secondary_weapon[id])
      BY <2>2 DEF ShootBullets, Current
    <3> QED BY <2>2, <3>1, WeaponChanges DEF ShootBullets, ArsenalInv, Hands
  <2> QED BY <2>1, <2>2 DEF ShootBullets, ArsenalInv, Hands
<1>2. Hands'
  BY <1>1 DEF ShootBullets, ArsenalInv, Hands, Held
<1>3. Lives' /\ Purses' /\ Floor'
  BY DEF ShootBullets, lives, purses, books, ArsenalInv, Lives, Purses, Floor
<1>4. Clock'
  BY ActClock DEF ShootBullets, lives, shop, ArsenalInv, Clock, Lives
<1>5. Numbered' /\ Carrying' = Carrying
  BY <1>1, WeaponsStay DEF ShootBullets, shop, ArsenalInv, Hands, Clock
<1> QED BY <1>2, <1>3, <1>4, <1>5 DEF ShootBullets, lives, ArsenalInv

\* A hit, whoever it comes from: the weapon of a player who dies goes to the floor.
LEMMA DamageStep ==
  ASSUME ArsenalInv, NEW shooter \in Ids, NEW victim \in players, NEW damage \in Damages,
         Damage(shooter, victim, damage)
  PROVE  /\ Lives' /\ Purses' /\ Hands' /\ Floor'
         /\ Carrying' \subseteq players' \cup dead_players'
         /\ joined' = joined
         /\ next_weapon_id' = next_weapon_id => Numbered'
<1>1. victim \in Ids /\ victim \in joined
  BY DEF ArsenalInv, Lives
<1>2. Wounded(victim, damage) \in Amount
  BY <1>1, Width, ArsenalAssumption DEF ArsenalAssumption, Wounded, Amount, ArsenalInv, Lives
<1>3. NoWeapon \in Weapon /\ NoWeapon.model = UNKNOWN
  BY NoWeaponType DEF NoWeapon
<1>4. /\ primary_weapon \in [Ids -> Weapon]
      /\ \A id \in DOMAIN weapons : /\ weapons[id].id = id /\ id \in Nat
                                    /\ weapons[id] \in Weapon /\ weapons[id].model # UNKNOWN
      /\ next_weapon_id \in Nat
  BY DEF ArsenalInv, Hands, Floor, Numbered, Weapon, Clock
<1>5. CASE Wounded(victim, damage) # 0
  <2>1. /\ UNCHANGED <<players, dead_players, primary_weapon, current, weapons, purses,
                       joined, infinite_health, knife, secondary_weapon>>
        /\ health' = [health EXCEPT ![victim] = Wounded(victim, damage)]
    BY <1>5 DEF Damage
  <2>2. Lives'
    BY <1>1, <1>2, <1>5, <2>1 DEF ArsenalInv, Lives, Amount
  <2>3. Purses' /\ Floor'
    BY <2>1 DEF purses, books, ArsenalInv, Purses, Floor
  <2>4. Hands'
    BY <2>1 DEF ArsenalInv, Hands, Held
  <2>5. Carrying' = Carrying
    BY <2>1 DEF Carrying
  <2>6. next_weapon_id' = next_weapon_id => Numbered'
    BY <2>1, <2>5 DEF ArsenalInv, Numbered
  <2> QED BY <2>1, <2>2, <2>3, <2>4, <2>5, <2>6 DEF ArsenalInv
<1>6. CASE Wounded(victim, damage) = 0
  <2>1. /\ primary_weapon' = [primary_weapon EXCEPT ![victim] = NoWeapon]
        /\ weapons' = OnFloor(primary_weapon[victim])
        /\ current' = [current EXCEPT ![victim] = "secondary"]
        /\ players' = players \ {victim} /\ dead_players' = dead_players \cup {victim}
        /\ Reward({shooter} \cap players', {shooter}, KILL_REWARD)
        /\ health' = [health EXCEPT ![victim] = 0]
        /\ UNCHANGED <<joined, infinite_health, knife, secondary_weapon>>
    BY <1>6 DEF Damage, DropWeapons
  <2>2. Lives'
    BY <1>1, <1>2, <1>6, <2>1 DEF ArsenalInv, Lives, Amount
  <2>3. Purses'
    BY <2>1, RewardStep, ArsenalAssumption DEF ArsenalAssumption, ArsenalInv
  <2>4. Hands'
    BY <1>3, <2>1 DEF ArsenalInv, Hands, Held
  <2>5. /\ Carrying' = Carrying \ {victim}
        /\ \A id \in Carrying' : primary_weapon'[id] = primary_weapon[id]
    BY <1>3, <1>4, <2>1 DEF Carrying
  <2>6. /\ Dto(primary_weapon[victim]) \in Weapon
        /\ Dto(primary_weapon[victim]).id = primary_weapon[victim].id
        /\ Dto(primary_weapon[victim]).model = primary_weapon[victim].model
    BY <1>1, <1>4, WeaponChanges
  <2>7. CASE victim \in Carrying
    <3>1. weapons' = [id \in DOMAIN weapons \cup {primary_weapon[victim].id} |->
                        IF id = primary_weapon[victim].id THEN Dto(primary_weapon[victim])
                        ELSE weapons[id]]
      BY <2>1, <2>7 DEF OnFloor, Carrying
    <3>2. Floor'
      BY <1>4, <2>6, <2>7, <3>1 DEF Floor, Carrying
    <3>3. ASSUME next_weapon_id' = next_weapon_id
          PROVE  Numbered'
      <4>1. \A id \in DOMAIN weapons' : weapons'[id].id = id /\ id <= next_weapon_id'
        BY <1>4, <2>6, <2>7, <3>1, <3>3 DEF ArsenalInv, Numbered
      <4>2. \A id \in Carrying' : /\ primary_weapon'[id].id \notin DOMAIN weapons'
                                  /\ primary_weapon'[id].id <= next_weapon_id'
        BY <2>5, <2>7, <3>1, <3>3 DEF ArsenalInv, Numbered
      <4>3. \A id, other \in Carrying' :
               primary_weapon'[id].id = primary_weapon'[other].id => id = other
        BY <2>5 DEF ArsenalInv, Numbered
      <4> QED BY <4>1, <4>2, <4>3 DEF Numbered
    <3> QED BY <2>1, <2>2, <2>3, <2>4, <2>5, <3>2, <3>3 DEF ArsenalInv
  <2>8. CASE victim \notin Carrying
    <3>1. weapons' = weapons
      BY <1>1, <2>1, <2>8 DEF OnFloor, Carrying
    <3>2. Floor'
      BY <3>1 DEF ArsenalInv, Floor
    <3>3. next_weapon_id' = next_weapon_id => Numbered'
      BY <2>5, <3>1 DEF ArsenalInv, Numbered
    <3> QED BY <2>1, <2>2, <2>3, <2>4, <2>5, <3>2, <3>3 DEF ArsenalInv
  <2> QED BY <2>7, <2>8
<1> QED BY <1>5, <1>6

LEMMA HitStep ==
  ASSUME ArsenalInv, NEW id \in Ids, NEW victim \in Ids, NEW damage \in Damages,
         BulletHits(id, victim, damage) \/ EmployKnife(id, victim, damage)
  PROVE  ArsenalInv'
<1>1. /\ victim \in players /\ Damage(id, victim, damage)
      /\ Act /\ shots' \subseteq shots /\ UNCHANGED shop
  BY DEF BulletHits, EmployKnife
<1>2. joined' = joined /\ next_weapon_id' = next_weapon_id
  BY <1>1, DamageStep DEF shop
<1>3. Clock'
  BY <1>1, <1>2, ActClock DEF shop, ArsenalInv, Clock
<1> QED BY <1>1, <1>2, <1>3, DamageStep DEF ArsenalInv

LEMMA CheatStep ==
  ASSUME ArsenalInv, NEW id \in Ids, Cheat(id)
  PROVE  ArsenalInv'
<1>1. /\ Act /\ UNCHANGED <<weapons, shots, shop>> /\ id \in players
      /\ HealthCheat(id) \/ AmmoCheat(id) \/ MoneyCheat(id)
  BY DEF Cheat
<1>2. UNCHANGED <<joined, players, dead_players>>
  BY <1>1 DEF HealthCheat, AmmoCheat, MoneyCheat, lives
<1>3. Clock'
  BY <1>1, <1>2, ActClock DEF shop, ArsenalInv, Clock
<1>4. Floor'
  BY <1>1 DEF ArsenalInv, Floor
<1>5. CheatAmount \in Amount \ {0}
  BY ArsenalAssumption DEF ArsenalAssumption
<1>6. Lives'
  <2>1. CASE HealthCheat(id)
    <3>1. \A other \in Ids : health'[other] = IF other = id THEN CheatAmount ELSE health[other]
      BY <2>1 DEF HealthCheat, ArsenalInv, Lives
    <3>2. health' \in [Ids -> Amount] /\ infinite_health' \in [Ids -> BOOLEAN]
      BY <1>5, <2>1 DEF HealthCheat, ArsenalInv, Lives
    <3>3. CheatAmount > 0
      BY <1>5, Width DEF Amount
    <3> QED BY <1>1, <1>2, <3>1, <3>2, <3>3 DEF ArsenalInv, Lives
  <2>2. CASE AmmoCheat(id) \/ MoneyCheat(id)
    BY <2>2 DEF AmmoCheat, MoneyCheat, lives, ArsenalInv, Lives
  <2> QED BY <1>1, <2>1, <2>2
<1>7. Purses'
  BY <1>1, <1>5 DEF HealthCheat, AmmoCheat, MoneyCheat, purses, books, ArsenalInv, Purses
<1>8. /\ primary_weapon' \in [Ids -> Weapon] /\ secondary_weapon' \in [Ids -> Weapon]
      /\ knife' = knife /\ current' = current
      /\ \A other \in Ids : /\ primary_weapon'[other].id = primary_weapon[other].id
                            /\ primary_weapon'[other].model = primary_weapon[other].model
  <2>1. CASE AmmoCheat(id)
    BY <2>1, WeaponChanges DEF AmmoCheat, ArsenalInv, Hands
  <2>2. CASE HealthCheat(id) \/ MoneyCheat(id)
    BY <2>2 DEF HealthCheat, MoneyCheat, hands, ArsenalInv, Hands
  <2> QED BY <1>1, <2>1, <2>2
<1>9. Hands'
  BY <1>8 DEF ArsenalInv, Hands, Held
<1>10. Numbered' /\ Carrying' = Carrying
  BY <1>1, <1>8, WeaponsStay DEF shop, ArsenalInv, Hands, Clock
<1> QED BY <1>2, <1>3, <1>4, <1>6, <1>7, <1>9, <1>10 DEF ArsenalInv

LEMMA EndRoundStep ==
  ASSUME ArsenalInv, NEW winners \in SUBSET players, EndRound(winners)
  PROVE  ArsenalInv'
<1>1. Lives'
  BY ArsenalAssumption DEF ArsenalAssumption, EndRound, ArsenalInv, Lives, Amount
<1>2. Purses'
  BY RewardStep, ArsenalAssumption DEF ArsenalAssumption, EndRound, ArsenalInv
<1>3. UNCHANGED <<hands, weapons, joined, round_number, actions>>
  BY DEF EndRound
<1>4. PICK n \in Tried(Cardinality(players')) : NextIds(n)
  BY DEF EndRound
<1>5. n \in Nat
  <2>1. IsFiniteSet(players')
    BY <1>1, <1>3, FS_Subset, ArsenalAssumption DEF ArsenalAssumption, Lives
  <2>2. Cardinality(players') \in Nat
    BY <2>1, FS_CardinalityType
  <2> QED BY <1>4, <2>2, ArsenalAssumption DEF ArsenalAssumption, Tried
<1>6. /\ next_weapon_id \in Nat /\ next_weapon_id' \in 0 .. MaxWeaponId
      /\ next_weapon_id <= next_weapon_id'
  BY <1>4, <1>5, ArsenalAssumption DEF ArsenalAssumption, ArsenalInv, Clock, NextIds, Amount
<1>7. Clock'
  BY <1>3, <1>6, ArsenalAssumption
     DEF ArsenalAssumption, EndRound, ArsenalInv, Clock, Phases
<1>8. Floor'
  BY <1>3 DEF ArsenalInv, Floor
<1>9. Hands'
  BY <1>3 DEF hands, ArsenalInv, Hands, Held
<1>10. Numbered' /\ Carrying' = Carrying
  BY <1>3, <1>6, WeaponsStay DEF hands, ArsenalInv, Hands, Amount
<1> QED BY <1>1, <1>2, <1>7, <1>8, <1>9, <1>10 DEF EndRound, ArsenalInv

LEMMA NextStep ==
  ASSUME ArsenalInv, [Next]_vars
  PROVE  ArsenalInv'
<1>1. CASE UNCHANGED vars
  <2>1. UNCHANGED <<lives, purses, hands, weapons, shots, shop, actions>>
    BY <1>1 DEF vars
  <2>2. Lives' /\ Purses' /\ Floor' /\ Clock' /\ Carrying' = Carrying
    BY <2>1
       DEF lives, purses, books, hands, shop, ArsenalInv, Lives, Purses, Floor, Clock, Carrying
  <2>3. Hands'
    BY <2>1 DEF hands, ArsenalInv, Hands, Held
  <2>4. Numbered'
    BY <2>1, <2>2 DEF hands, shop, ArsenalInv, Numbered
  <2> QED BY <2>1, <2>2, <2>3, <2>4 DEF lives, ArsenalInv
<1>2. CASE Next
  BY <1>2, PhaseStep, EndRoundStep, AddPlayerStep, QuitStep, ShopWeaponStep, ShopAmmoStep,
     ChangeWeaponStep, PickUpWeaponStep, ShootBulletsStep, HitStep, CheatStep DEF Next
<1> QED BY <1>1, <1>2

-----------------------------------------------------------------------------
(* Theorems *)

\* Health, money and ammunition stay within their widths, the living have health
\* and the dead have none, and the pointer current never points at a weapon its
\* player does not have, whoever drops, buys, takes or dies.
THEOREM TypeCorrect == Spec => []TypeOK
<1>1. Init => ArsenalInv
  BY InitStep
<1>2. ArsenalInv /\ [Next]_vars => ArsenalInv'
  BY NextStep
<1> QED BY <1>1, <1>2, InvGivesTypeOK, PTL DEF Spec

\* However often weapons are bought, left, dropped and taken, each is in one place.
THEOREM OneKeeperHolds == Spec => []OneKeeper
<1>1. Init => ArsenalInv
  BY InitStep
<1>2. ArsenalInv /\ [Next]_vars => ArsenalInv'
  BY NextStep
<1> QED BY <1>1, <1>2, InvGivesOneKeeper, PTL DEF Spec

-----------------------------------------------------------------------------
(* Sums that wrap *)

LEMMA Times ==
  ASSUME NEW m \in Nat, NEW k \in Nat, m > 0
  PROVE  m * k >= k /\ m * k \in Nat
<1>1. m - 1 \in Nat /\ m = 1 + (m - 1)
  OBVIOUS
<1>2. (1 + (m - 1)) * k = 1 * k + (m - 1) * k /\ (m - 1) * k \in Nat
  BY <1>1
<1> QED BY <1>1, <1>2

LEMMA Divided ==
  ASSUME NEW n \in Int, NEW u \in Nat, u > 0
  PROVE  \E q \in Int : n = q * u + (n % u) /\ n % u \in 0 .. u - 1
<1>1. n = u * (n \div u) + (n % u) /\ n % u \in 0 .. u - 1 /\ n \div u \in Int
  OBVIOUS
<1>2. u * (n \div u) = (n \div u) * u
  BY <1>1
<1> QED BY <1>1, <1>2

LEMMA Shift ==
  ASSUME NEW u \in Nat, u > 0, NEW q \in Int, NEW p \in Int, NEW r \in 0 .. u - 1,
         NEW s \in 0 .. u - 1, q * u + r = p * u + s, q < p
  PROVE  FALSE
<1>1. p - q \in Nat /\ p - q > 0
  OBVIOUS
<1>2. (p - q) * u >= u
  BY <1>1, Times
<1>3. (p - q) * u = p * u - q * u
  OBVIOUS
<1>4. p * u \in Int /\ q * u \in Int
  OBVIOUS
<1> QED BY <1>2, <1>3, <1>4

LEMMA Remainder ==
  ASSUME NEW u \in Nat, u > 0, NEW q \in Int, NEW r \in 0 .. u - 1
  PROVE  (q * u + r) % u = r
<1>0. q * u + r \in Int
  OBVIOUS
<1>1. PICK p \in Int : q * u + r = p * u + ((q * u + r) % u)
                       /\ (q * u + r) % u \in 0 .. u - 1
  BY <1>0, Divided
<1>2. q = p
  <2>1. ~(q < p)
    BY <1>1, Shift
  <2>2. ~(p < q)
    BY <1>1, Shift
  <2> QED BY <2>1, <2>2
<1>3. q * u \in Int
  OBVIOUS
<1> QED BY <1>1, <1>2, <1>3

LEMMA AddMod ==
  ASSUME NEW u \in Nat, u > 0, NEW n \in Int, NEW b \in Int
  PROVE  ((n % u) + b) % u = (n + b) % u
<1>1. PICK q \in Int : n = q * u + (n % u) /\ n % u \in 0 .. u - 1
  BY Divided
<1>2. PICK r \in 0 .. u - 1 : r = n % u
  BY <1>1
<1>3. PICK p \in Int : r + b = p * u + ((r + b) % u) /\ (r + b) % u \in 0 .. u - 1
  BY Divided
<1>4. PICK s \in 0 .. u - 1 : s = (r + b) % u
  BY <1>3
<1>5. n + b = (q + p) * u + s
  <2>1. (q + p) * u = q * u + p * u /\ q * u \in Int /\ p * u \in Int
    OBVIOUS
  <2> QED BY <1>1, <1>2, <1>3, <1>4, <2>1
<1>6. q + p \in Int
  OBVIOUS
<1>7. ((q + p) * u + s) % u = s
  BY <1>6, Remainder
<1> QED BY <1>2, <1>4, <1>5, <1>7
LEMMA ModBelow ==
  ASSUME NEW u \in Nat, u > 0, NEW n \in Nat
  PROVE  n % u <= n /\ (n < u => n % u = n)
OBVIOUS

-----------------------------------------------------------------------------
(* Money *)

\* What is credited to a client, and what he should have.
Credit(id) == earned[id] + unpaid[id]
Balance(id) == PlayerMoney + earned[id] - spent[id]

Exact(id) == spent[id] <= PlayerMoney + earned[id] /\ money[id] = Balance(id) % Uint16

\* The inductive invariant: nothing is on the books of a client who never joined.
Accounts ==
    /\ \A id \in Ids \ joined : earned[id] = 0 /\ unpaid[id] = 0 /\ spent[id] = 0
    /\ \A id \in Ids : stats_money[id] = Credit(id) % Uint16
    /\ \A id \in players \cup dead_players : ~infinite_money[id] => Exact(id)

LEMMA InvGivesSolvent == ArsenalInv /\ Accounts => Solvent
BY DEF ArsenalInv, Lives, Accounts, Exact, Balance, Credit, Solvent

\* Nobody is paid, credited or charged, and nobody enters the match.
LEMMA NothingPaid ==
  ASSUME Accounts, UNCHANGED purses, joined \subseteq joined',
         players' \cup dead_players' \subseteq players \cup dead_players
  PROVE  Accounts'
BY DEF Accounts, Exact, Balance, Credit, purses, books

LEMMA AddPlayerPays ==
  ASSUME ArsenalInv, Accounts, NEW id \in Ids, AddPlayer(id)
  PROVE  Accounts'
<1>1. /\ joined' = joined \cup {id} /\ players' = players \cup {id} /\ id \notin joined
      /\ dead_players' = dead_players
      /\ money' = [money EXCEPT ![id] = PlayerMoney]
      /\ UNCHANGED <<infinite_money, stats_money, earned, unpaid, spent>>
  BY DEF AddPlayer, books
<1>2. PlayerMoney \in Amount /\ PlayerMoney \in Nat
  BY Width, ArsenalAssumption DEF ArsenalAssumption, Amount
<1>3. Exact(id)'
  <2>1. earned'[id] = 0 /\ spent'[id] = 0 /\ money'[id] = PlayerMoney
    BY <1>1 DEF Accounts, ArsenalInv, Purses
  <2>2. PlayerMoney % Uint16 = PlayerMoney
    BY <1>2, Width, ModBelow DEF Amount
  <2>3. PlayerMoney + 0 - 0 = PlayerMoney /\ 0 <= PlayerMoney + 0
    BY <1>2
  <2> QED BY <2>1, <2>2, <2>3 DEF Exact, Balance
<1>4. ASSUME NEW other \in players \cup dead_players, ~infinite_money[other]
      PROVE  Exact(other)'
  <2>1. other # id /\ other \in Ids
    BY <1>1 DEF ArsenalInv, Lives
  <2>2. money'[other] = money[other]
    BY <1>1, <2>1 DEF ArsenalInv, Purses
  <2> QED BY <1>1, <1>4, <2>2 DEF Accounts, Exact, Balance
<1> QED BY <1>1, <1>3, <1>4 DEF Accounts, Credit

LEMMA QuitPays ==
  ASSUME ArsenalInv, Accounts, NEW id \in Ids, Quit(id)
  PROVE  Accounts'
<1>1. /\ UNCHANGED <<joined, stats_money, earned, unpaid, spent>>
      /\ \A other \in Ids \ {id} : /\ money'[other] = money[other]
                                   /\ infinite_money'[other] = infinite_money[other]
      /\ players' \cup dead_players' \subseteq (players \cup dead_players) \ {id}
  BY DEF Quit, books, ArsenalInv, Purses
<1>2. players \cup dead_players \subseteq Ids
  BY DEF ArsenalInv, Lives
<1> QED BY <1>1, <1>2 DEF Accounts, Exact, Balance, Credit

LEMMA ChargePays ==
  ASSUME ArsenalInv, Accounts, NEW id \in players, NEW amount \in Amount,
         money[id] >= amount, Charge(id, amount), UNCHANGED lives
  PROVE  Accounts'
<1>1. id \in Ids /\ players \cup dead_players \subseteq Ids
  BY DEF ArsenalInv, Lives
<1>2. UNCHANGED <<infinite_money, stats_money, earned, unpaid, joined, players, dead_players>>
  BY DEF Charge, lives
<1>3. CASE infinite_money[id]
  BY <1>2, <1>3, NothingPaid DEF Charge, purses, books
<1>4. CASE ~infinite_money[id]
  <2>1. /\ money' = [money EXCEPT ![id] = (@ - amount) % Uint16]
        /\ spent' = [spent EXCEPT ![id] = @ + amount]
    BY <1>4 DEF Charge
  <2>2. \A other \in Ids \ {id} : money'[other] = money[other] /\ spent'[other] = spent[other]
    BY <2>1 DEF ArsenalInv, Purses
  <2>3. Exact(id)'
    <3>1. PICK e \in Nat, s \in Nat, m \in Nat, p \in Nat, u \in Nat, a \in Nat :
             /\ e = earned[id] /\ s = spent[id] /\ m = money[id] /\ p = PlayerMoney
             /\ u = Uint16 /\ u > 0 /\ a = amount
      BY <1>1, Width, ArsenalAssumption DEF ArsenalAssumption, Amount, ArsenalInv, Purses
    <3>2. s <= p + e /\ m = (p + e - s) % u /\ m >= a
      BY <1>4, <3>1 DEF Accounts, Exact, Balance
    <3>3. PICK n \in Nat : n = p + e - s
      BY <3>1, <3>2
    <3>4. m <= n
      BY <3>1, <3>2, <3>3, ModBelow
    <3>5. s + a <= p + e /\ p + e - (s + a) = n + (-a) /\ -a \in Int /\ m + (-a) = m - a
      BY <3>1, <3>2, <3>3, <3>4
    <3>6. (m + (-a)) % u = (n + (-a)) % u
      <4>1. PICK x \in Int, b \in Int : x = n /\ b = -a
        BY <3>1, <3>3
      <4>2. ((x % u) + b) % u = (x + b) % u
        BY <3>1, AddMod
      <4> QED BY <3>2, <3>3, <4>1, <4>2
    <3>7. money'[id] = (m - a) % u /\ spent'[id] = s + a /\ earned'[id] = e
      BY <1>1, <1>2, <2>1, <3>1 DEF ArsenalInv, Purses
    <3>8. (PlayerMoney + earned[id] - spent[id])' = n + (-a)
      BY <3>1, <3>5, <3>7
    <3>9. money'[id] = (n + (-a)) % u /\ spent'[id] <= PlayerMoney + earned'[id]
      BY <3>1, <3>5, <3>6, <3>7
    <3> QED BY <3>1, <3>8, <3>9 DEF Exact, Balance
  <2>4. ASSUME NEW other \in players \cup dead_players, ~infinite_money[other]
        PROVE  Exact(other)'
    <3>1. CASE other = id
      BY <2>3, <3>1
    <3>2. CASE other # id
      BY <1>1, <1>2, <2>2, <2>4, <3>2 DEF Accounts, Exact, Balance
    <3> QED BY <3>1, <3>2
  <2>5. id \in joined
    BY DEF ArsenalInv, Lives
  <2>6. \A other \in Ids \ joined : spent'[other] = spent[other]
    BY <2>2, <2>5
  <2> QED BY <1>2, <2>4, <2>6 DEF Accounts, Credit
<1> QED BY <1>3, <1>4

\* Some are credited a reward and the living among them are paid it.
LEMMA RewardPays ==
  ASSUME ArsenalInv, Accounts, NEW paid \in SUBSET Ids, NEW credited \in SUBSET joined,
         paid \subseteq credited, NEW amount \in Nat, Reward(paid, credited, amount),
         joined' = joined, players' \cup dead_players' = players \cup dead_players
  PROVE  Accounts'
<1>1. joined \subseteq Ids /\ players \cup dead_players \subseteq joined
  BY DEF ArsenalInv, Lives
<1>2. ASSUME NEW id \in Ids
      PROVE  /\ id \notin joined => earned'[id] = 0 /\ unpaid'[id] = 0 /\ spent'[id] = 0
             /\ stats_money'[id] = Credit(id)' % Uint16
             /\ infinite_money'[id] = infinite_money[id]
             /\ Exact(id) => Exact(id)'
  <2>1. PICK e \in Nat, n \in Nat, s \in Nat, m \in Nat, c \in Nat, p \in Nat, u \in Nat :
           /\ e = earned[id] /\ n = unpaid[id] /\ s = spent[id] /\ m = money[id]
           /\ c = stats_money[id] /\ p = PlayerMoney /\ u = Uint16 /\ u > 0
    BY Width, ArsenalAssumption DEF ArsenalAssumption, Amount, ArsenalInv, Purses
  <2>2. /\ money'[id] = IF id \in paid THEN (m + amount) % u ELSE m
        /\ stats_money'[id] = IF id \in credited THEN (c + amount) % u ELSE c
        /\ earned'[id] = IF id \in paid THEN e + amount ELSE e
        /\ unpaid'[id] = IF id \in credited \ paid THEN n + amount ELSE n
        /\ spent'[id] = s /\ infinite_money'[id] = infinite_money[id]
    BY <2>1 DEF Reward, AddTo
  <2>3. c = (e + n) % u
    BY <2>1 DEF Accounts, Credit
  <2>4. stats_money'[id] = Credit(id)' % Uint16
    <3>1. (((e + n) % u) + amount) % u = ((e + n) + amount) % u
      <4>1. PICK x \in Int, b \in Int : x = e + n /\ b = amount
        BY <2>1
      <4>2. ((x % u) + b) % u = (x + b) % u
        BY <2>1, AddMod
      <4> QED BY <4>1, <4>2
    <3>2. (e + n) + amount = (e + amount) + n /\ (e + n) + amount = e + (n + amount)
      BY <2>1
    <3> QED BY <2>1, <2>2, <2>3, <3>1, <3>2 DEF Credit
  <2>5. Exact(id) => Exact(id)'
    <3>1. SUFFICES ASSUME Exact(id), id \in paid PROVE Exact(id)'
      BY <2>1, <2>2 DEF Exact, Balance
    <3>2. s <= p + e /\ m = (p + e - s) % u
      BY <2>1, <3>1 DEF Exact, Balance
    <3>3. (((p + e - s) % u) + amount) % u = ((p + e - s) + amount) % u
      <4>1. PICK x \in Int, b \in Int : x = p + e - s /\ b = amount
        BY <2>1
      <4>2. ((x % u) + b) % u = (x + b) % u
        BY <2>1, AddMod
      <4> QED BY <4>1, <4>2
    <3>4. p + (e + amount) - s = (p + e - s) + amount /\ s <= p + (e + amount)
      BY <2>1, <3>2
    <3> QED BY <2>1, <2>2, <3>1, <3>2, <3>3, <3>4 DEF Exact, Balance
  <2>6. id \notin joined => earned'[id] = 0 /\ unpaid'[id] = 0 /\ spent'[id] = 0
    BY <2>1, <2>2 DEF Accounts
  <2> QED BY <2>2, <2>4, <2>5, <2>6
<1> QED BY <1>1, <1>2 DEF Accounts

LEMMA AccountsStep ==
  ASSUME ArsenalInv, Accounts, [Next]_vars
  PROVE  Accounts'
<1>1. CASE UNCHANGED vars
  BY <1>1, NothingPaid DEF vars, lives
<1>2. CASE StartMatch \/ StartRound
  BY <1>2, NothingPaid DEF StartMatch, StartRound, lives
<1>3. ASSUME NEW id \in Ids,
             ChangeWeapon(id) \/ PickUpWeapon(id) \/ ShootBullets(id)
      PROVE  Accounts'
  BY <1>3, NothingPaid DEF ChangeWeapon, PickUpWeapon, ShootBullets, lives
<1>4. ASSUME NEW id \in Ids, NEW model \in Catalog, ShopWeapon(id, model)
      PROVE  Accounts'
  <2>1. Price[model] \in Amount
    BY ArsenalAssumption DEF ArsenalAssumption
  <2> QED BY <1>4, <2>1, ChargePays DEF ShopWeapon, SellsWeapon
<1>5. ASSUME NEW id \in Ids, NEW amount \in AmmoAmounts, ShopAmmo(id, amount)
      PROVE  Accounts'
  <2>1. amount \in Amount
    BY ArsenalAssumption DEF ArsenalAssumption
  <2> QED BY <1>5, <2>1, ChargePays DEF ShopAmmo, SellsAmmo
<1>6. ASSUME NEW id \in Ids, NEW victim \in Ids, NEW damage \in Damages,
             BulletHits(id, victim, damage) \/ EmployKnife(id, victim, damage)
      PROVE  Accounts'
  <2>1. Damage(id, victim, damage) /\ victim \in players /\ id \in joined /\ joined' = joined
    BY <1>6 DEF BulletHits, EmployKnife, Damage, ArsenalInv, Lives, Clock
  <2>2. CASE Wounded(victim, damage) # 0
    BY <2>1, <2>2, NothingPaid DEF Damage
  <2>3. CASE Wounded(victim, damage) = 0
    <3>1. /\ Reward({id} \cap players', {id}, KILL_REWARD)
          /\ players' \cup dead_players' = players \cup dead_players
      BY <2>1, <2>3 DEF Damage
    <3>2. /\ KILL_REWARD \in Nat /\ {id} \cap players' \in SUBSET Ids
          /\ {id} \in SUBSET joined /\ {id} \cap players' \subseteq {id}
      BY <2>1, ArsenalAssumption DEF ArsenalAssumption
    <3> QED BY <2>1, <3>1, <3>2, RewardPays
  <2> QED BY <2>2, <2>3
<1>7. ASSUME NEW id \in Ids, Cheat(id)
      PROVE  Accounts'
  <2>1. UNCHANGED <<joined, players, dead_players>>
    BY <1>7 DEF Cheat, HealthCheat, AmmoCheat, MoneyCheat, lives
  <2>2. CASE UNCHANGED purses
    BY <2>1, <2>2, NothingPaid
  <2>3. CASE MoneyCheat(id)
    <3>1. /\ infinite_money'[id] = TRUE
          /\ \A other \in Ids \ {id} : /\ money'[other] = money[other]
                                       /\ infinite_money'[other] = infinite_money[other]
          /\ UNCHANGED <<stats_money, earned, unpaid, spent>>
      BY <2>3 DEF MoneyCheat, books, ArsenalInv, Purses
    <3>2. players \cup dead_players \subseteq Ids
      BY DEF ArsenalInv, Lives
    <3> QED BY <2>1, <3>1, <3>2 DEF Accounts, Exact, Balance, Credit
  <2> QED BY <1>7, <2>2, <2>3 DEF Cheat, HealthCheat, AmmoCheat
<1>8. ASSUME NEW winners \in SUBSET players, EndRound(winners)
      PROVE  Accounts'
  <2>1. /\ Reward(winners, winners, ROUND_WON_REWARD) /\ joined' = joined
        /\ players' \cup dead_players' = players \cup dead_players
    BY <1>8 DEF EndRound
  <2>2. ROUND_WON_REWARD \in Nat /\ winners \in SUBSET Ids /\ winners \in SUBSET joined
    BY ArsenalAssumption DEF ArsenalAssumption, ArsenalInv, Lives
  <2> QED BY <2>1, <2>2, RewardPays
<1> QED
  BY <1>1, <1>2, <1>3, <1>4, <1>5, <1>6, <1>7, <1>8, AddPlayerPays, QuitPays DEF Next

\* Every balance is exact to the width of the counters, whatever the rewards and
\* the prices and however long the match: a player without the cheat has what he
\* began with and was paid less what he was charged, and nothing else.
THEOREM SolventHolds == Spec => []Solvent
<1>1. Init => ArsenalInv /\ Accounts
  <2> SUFFICES ASSUME Init PROVE Accounts
    BY InitStep
  <2>1. 0 % Uint16 = 0
    BY Width
  <2> QED BY <2>1 DEF Init, Accounts, Credit
<1>2. ArsenalInv /\ Accounts /\ [Next]_vars => (ArsenalInv /\ Accounts)'
  BY NextStep, AccountsStep
<1> QED BY <1>1, <1>2, InvGivesSolvent, PTL DEF Spec

=============================================================================
