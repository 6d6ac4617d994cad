----------------------------- MODULE OrderBuilders -----------------------------
(***************************************************************************)
(* The local checks of _orders.py and units.py: a call is built into a     *)
(* wire request or refused before anything is sent, and the gateway, which *)
(* is external, checks what it is sent by its own rules.  A call is one    *)
(* behaviour: built or refused, then judged.                               *)
(*                                                                         *)
(* Strings are abstracted to whether they are given, prices and sizes to   *)
(* small integers of which those over MaxWire do not fit their field.      *)
(***************************************************************************)
EXTENDS Units, Sequences, FiniteSets

CONSTANTS
  Keys,     \* client_order_ids
  NoKey,    \* the empty client_order_id
  Absent,   \* None
  NotInt,   \* a float, a bool or anything else that is not a plain int
  MaxWire,  \* the largest integer that fits a wire field
  MaxBasket \* MAX_BASKET_ORDERS

ASSUME KeyAssumption == Keys # {} /\ NoKey \notin Keys
ASSUME WireAssumption == MaxWire \in Nat \ {0, 1}
ASSUME AbsentAssumption == {Absent, NotInt} \cap Int = {}
ASSUME BasketAssumption == MaxBasket \in Nat \ {0}

(* What a caller may pass for an integer, and what of it the runs try: one *)
(* beyond the field at either end.                                         *)
AnyInt == Int \cup {Absent, NotInt}
Values == (-1 .. MaxWire + 1) \cup {Absent, NotInt}
Types == {"ORDER_TYPE_UNSPECIFIED", "REGULAR", "ICEBERG", "BLOCK"}
Restrictions == {"EXE_UNSPECIFIED", "NON", "AON", "FOK", "IOC"}
Validities == {"VALIDITY_UNSPECIFIED", "GFS", "VALIDITY_NON"}
Actions == {"MODIFY_UNSPECIFIED", "MODIFY", "ACTIVATE", "DEACTIVATE"}

(* The keyword arguments of submit_order the checks look at.               *)
SubmitArgs ==
  [ key : Keys \cup {NoKey}, side : {"SIDE_UNSPECIFIED", "BUY", "SELL"},
    area : {"missing", "short", "eic"}, contract : BOOLEAN, product : BOOLEAN,
    start : BOOLEAN, end : BOOLEAN, type : Types, exe : Restrictions,
    validity : Validities, price : AnyInt, quantity : AnyInt, display : AnyInt ]

-----------------------------------------------------------------------------
(* build_submit_order_request: the rule that refuses, in the code's order. *)

CheckBlock(a) ==
  IF a.type = "BLOCK" /\ a.exe = "NON" THEN "block_restriction"
  ELSE IF a.type = "BLOCK" /\ a.exe = "IOC" THEN "block_sweep"
  ELSE IF a.end /\ ~(a.type = "BLOCK" /\ a.product /\ a.start /\ ~a.contract) THEN
         "delivery_end"
  ELSE "none"

IdentityFault(a) ==
  IF a.key = NoKey THEN "client_order_id"
  ELSE IF a.side = "SIDE_UNSPECIFIED" THEN "side"
  ELSE IF a.area # "eic" THEN "area"
  ELSE IF CheckBlock(a) # "none" THEN CheckBlock(a)
  ELSE IF ~a.contract /\ ~(a.product /\ a.start) THEN "contract"
  ELSE "none"

(* Mutant: a display size of zero counts as given.                         *)
DisplayFaultZero(a) ==
  IF a.display # Absent /\ a.type # "ICEBERG" THEN "display"
  ELSE IF a.type = "ICEBERG" /\ a.display \in {Absent, 0} THEN "display_missing"
  ELSE IF a.display # Absent /\ a.display >= a.quantity THEN "display_size"
  ELSE "none"

(* Mutant: the peak may be the whole size.                                 *)
DisplayFaultWhole(a) ==
  IF a.display # Absent /\ a.display > 0 /\ a.type # "ICEBERG" THEN "display"
  ELSE IF a.type = "ICEBERG" /\ a.display \in {Absent, 0} THEN "display_missing"
  ELSE IF a.display # Absent /\ a.display > a.quantity THEN "display_size"
  ELSE "none"

(* A size of zero on the wire is no size: only an iceberg shows a peak, it *)
(* must, and less than all of it.                                          *)
DisplayFault(a) ==
  IF a.display # Absent /\ a.display > 0 /\ a.type # "ICEBERG" THEN "display"
  ELSE IF a.type = "ICEBERG" /\ a.display \in {Absent, 0} THEN "display_missing"
  ELSE IF a.display # Absent /\ a.display >= a.quantity THEN "display_size"
  ELSE "none"

(* _set_field and _wrapped: protobuf refuses what does not fit.            *)
Fits(v) == v <= MaxWire
FitsUnsigned(v) == 0 <= v /\ v <= MaxWire
OrZero(v) == IF v = Absent THEN 0 ELSE v

AmountFault(a) ==
  IF a.price \in {Absent, NotInt} THEN "price"
  ELSE IF a.quantity \in {Absent, NotInt} THEN "quantity"
  ELSE IF a.display = NotInt THEN "display_type"
  ELSE IF a.quantity <= 0 THEN "no_size"
  ELSE IF DisplayFault(a) # "none" THEN DisplayFault(a)
  ELSE IF a.exe \in {"FOK", "IOC"} /\ a.validity # "VALIDITY_NON" THEN "validity"
  ELSE IF ~Fits(a.price) \/ ~FitsUnsigned(a.quantity)
         \/ ~FitsUnsigned(OrZero(a.display)) THEN "wire_width"
  ELSE "none"

SubmitFault(a) ==
  IF IdentityFault(a) # "none" THEN IdentityFault(a) ELSE AmountFault(a)

(* The checks that are the SDK's own and no rule of the gateway.           *)
OwnChecks ==
  {"client_order_id", "price", "quantity", "display_type", "wire_width"}

(* The request: what was not passed is the field's zero.                   *)
SubmitRequest(a) == [a EXCEPT !.display = OrZero(a.display)]

-----------------------------------------------------------------------------
(* build_submit_basket_request: the index it names and the rule.           *)

Refused(index, fault) == [index |-> index, fault |-> fault]

FirstOf(S) == CHOOSE i \in S : \A j \in S : i <= j

OrderFault(a) == IF a.end THEN "basket_block" ELSE SubmitFault(a)
Faulty(orders) == {i \in 1 .. Len(orders) : OrderFault(orders[i]) # "none"}

Repeats(orders) ==
  {p \in (1 .. Len(orders)) \X (1 .. Len(orders)) :
     p[1] < p[2] /\ orders[p[1]].key = orders[p[2]].key}

(* Mutant: the repeated order is named, not the one that repeats it.       *)
CheckBasketOrdersFirst(inst, orders) ==
  LET notFok == {i \in 1 .. Len(orders) : orders[i].exe # "FOK"} IN
  IF Repeats(orders) # {}
    THEN Refused(FirstOf({p[1] : p \in Repeats(orders)}), "repeats")
  ELSE IF inst = "linked" /\ notFok # {}
    THEN Refused(FirstOf(notFok), "linked")
  ELSE Refused(0, "none")

(* One key per order, and fill-or-kill on every order of a linked basket.  *)
CheckBasketOrders(inst, orders) ==
  LET notFok == {i \in 1 .. Len(orders) : orders[i].exe # "FOK"} IN
  IF Repeats(orders) # {}
    THEN Refused(FirstOf({p[2] : p \in Repeats(orders)}), "repeats")
  ELSE IF inst = "linked" /\ notFok # {}
    THEN Refused(FirstOf(notFok), "linked")
  ELSE Refused(0, "none")

BasketFault(b) ==
  IF b.inst \notin {"none", "valid", "linked"} THEN Refused(0, "inst")
  ELSE IF b.orders = <<>> THEN Refused(0, "empty")
  ELSE IF Len(b.orders) > MaxBasket THEN Refused(0, "too_large")
  ELSE IF Faulty(b.orders) # {} THEN
         Refused(FirstOf(Faulty(b.orders)), OrderFault(b.orders[FirstOf(Faulty(b.orders))]))
  ELSE CheckBasketOrders(b.inst, b.orders)

-----------------------------------------------------------------------------
(* build_modify_order_request.                                             *)

ModifyArgs ==
  [key : Keys \cup {NoKey}, action : Actions, price : AnyInt, quantity : AnyInt,
   display : AnyInt]

CheckRestatement(m) ==
  IF Absent \in {m.price, m.quantity} THEN "restatement"
  ELSE IF m.quantity <= 0 THEN "no_size"
  ELSE IF m.display # Absent /\ m.display >= m.quantity THEN "display_size"
  ELSE "none"

(* Only the action MODIFY is held to the rules of a restatement.           *)
ModifyFault(m) ==
  IF m.key = NoKey THEN "client_order_id"
  ELSE IF NotInt \in {m.price, m.quantity, m.display} THEN "not_an_int"
  ELSE IF m.action = "MODIFY" /\ CheckRestatement(m) # "none" THEN CheckRestatement(m)
  ELSE IF \/ m.price # Absent /\ ~Fits(m.price)
          \/ m.quantity # Absent /\ ~FitsUnsigned(m.quantity)
          \/ ~FitsUnsigned(OrZero(m.display)) THEN "wire_width"
  ELSE "none"

(* Mutant: a price of zero is not sent.                                    *)
ModifyRequestTruthy(m) ==
  [m EXCEPT !.display = OrZero(m.display),
            !.price = IF m.price = 0 THEN Absent ELSE m.price]

(* Price and size are wrapped, so that zero is told apart from absent.     *)
ModifyRequest(m) == [m EXCEPT !.display = OrZero(m.display)]

-----------------------------------------------------------------------------
(* The settings: patch_member, set_cash_limit and the two modes.           *)

PatchFields == {"max_position", "active", "cash_limit", "max_slot_position"}
PatchFault(p) ==
  IF ~p.id THEN "id"
  ELSE IF p.fields["max_slot_position"] # Absent /\ p.clear THEN "exclusive"
  ELSE "none"

(* Mutant: only a value that is true is sent.                              *)
PresentTruthy(fields) ==
  [f \in {g \in DOMAIN fields : fields[g] \notin {Absent, 0}} |-> fields[f]]

(* A field is on the wire if the caller passed it, zero or not.            *)
Present(fields) ==
  [f \in {g \in DOMAIN fields : fields[g] # Absent} |-> fields[f]]

(* build_set_self_trade_policy_request, build_set_slot_limit_request: a    *)
(* name in any case; the name of the enum's zero value is no name.         *)
Lower(name) == CASE name = "OBSERVE" -> "observe" [] name = "Reject" -> "reject"
                 [] OTHER -> name
ModeNames == [SetSelfTradePolicy |-> {"observe", "reject"},
              SetSlotLimit |-> {"off", "observe", "reject"}]
ModeFault(rpc, name) ==
  IF Lower(name) \notin ModeNames[rpc] THEN "mode" ELSE "none"

-----------------------------------------------------------------------------
(* The gateway (external): its field rules for what is on the wire.        *)

GatewayTakesOrder(r) ==
  LET type == IF r.type = "ORDER_TYPE_UNSPECIFIED" THEN "REGULAR" ELSE r.type
      exe == IF r.exe = "EXE_UNSPECIFIED" THEN "NON" ELSE r.exe
  IN
  /\ r.side # "SIDE_UNSPECIFIED" /\ r.area = "eic"
  /\ r.contract \/ (r.product /\ r.start)
  /\ r.end => type = "BLOCK" /\ r.product /\ r.start /\ ~r.contract
  /\ type = "BLOCK" => exe \in {"AON", "FOK"}
  /\ exe \in {"FOK", "IOC"} => r.validity = "VALIDITY_NON"
  /\ r.quantity > 0
  /\ (type = "ICEBERG") <=> (r.display > 0)
  /\ type = "ICEBERG" => r.display < r.quantity

GatewayTakesBasket(b) ==
  /\ b.inst \in {"none", "valid", "linked"}
  /\ Len(b.orders) \in 1 .. MaxBasket
  /\ \A i \in DOMAIN b.orders :
       ~b.orders[i].end /\ GatewayTakesOrder(SubmitRequest(b.orders[i]))
  /\ Repeats(b.orders) = {}
  /\ b.inst = "linked" => \A i \in DOMAIN b.orders : b.orders[i].exe = "FOK"

(* An unset action is read as MODIFY.                                      *)
ReadAsModify(r) == r.action \in {"MODIFY", "MODIFY_UNSPECIFIED"}
GatewayTakesModify(r) ==
  ReadAsModify(r) =>
    /\ Absent \notin {r.price, r.quantity}
    /\ r.quantity > 0 /\ r.display < r.quantity

GatewayTakesPatch(p) ==
  ~(p.clear /\ "max_slot_position" \in DOMAIN Present(p.fields))
GatewayTakesMode(rpc, name) == Lower(name) \in ModeNames[rpc]

(* What it makes of a member: the wrappers that are there replace.         *)
AfterPatch(member, p) ==
  LET sent == Present(p.fields) IN
  [f \in PatchFields |->
     IF f \in DOMAIN sent THEN sent[f]
     ELSE IF f = "max_slot_position" /\ p.clear THEN Absent ELSE member[f]]

(* What it makes of a cap: without the wrapper it is removed.              *)
AfterCap(cap) ==
  LET sent == Present([cap_cents |-> cap]) IN
  IF "cap_cents" \in DOMAIN sent THEN sent["cap_cents"] ELSE Absent

-----------------------------------------------------------------------------
(* A call.                                                                 *)

VARIABLES
  call,   \* what is called, with which arguments
  local,  \* what the builder made of it
  verdict \* whether the gateway takes what it is sent
builderVars == <<call, local, verdict>>

(* Orders whose every check but one group passes.                          *)
Plain == [ key |-> CHOOSE k \in Keys : TRUE, side |-> "BUY", area |-> "eic",
           contract |-> TRUE, product |-> FALSE, start |-> FALSE, end |-> FALSE,
           type |-> "REGULAR", exe |-> "NON", validity |-> "GFS",
           price |-> 0, quantity |-> 2, display |-> Absent ]

Identities ==
  {[Plain EXCEPT !.key = v.key, !.side = v.side, !.area = v.area] :
     v \in [key : Keys \cup {NoKey}, side : {"SIDE_UNSPECIFIED", "BUY"},
            area : {"missing", "short", "eic"}]}
Deliveries ==
  {[Plain EXCEPT !.contract = v.contract, !.product = v.product, !.start = v.start,
                 !.end = v.end, !.type = v.type, !.exe = v.exe, !.validity = v.validity] :
     v \in [contract : BOOLEAN, product : BOOLEAN, start : BOOLEAN, end : BOOLEAN,
            type : Types, exe : Restrictions, validity : Validities]}
Amounts ==
  {[Plain EXCEPT !.type = v.type, !.price = v.price, !.quantity = v.quantity,
                 !.display = v.display] :
     v \in [type : Types, price : Values, quantity : Values, display : Values]}

FillOrKill == [Plain EXCEPT !.exe = "FOK", !.validity = "VALIDITY_NON"]
BasketOrders ==
  {[Plain EXCEPT !.key = k] : k \in Keys \cup {NoKey}}
    \cup {[FillOrKill EXCEPT !.key = k] : k \in Keys}
    \cup {[FillOrKill EXCEPT !.end = TRUE], [Plain EXCEPT !.quantity = 0]}
Baskets ==
  [inst : {"none", "linked", "all"},
   orders : UNION {[1 .. n -> BasketOrders] : n \in 0 .. MaxBasket + 1}]

Modifies ==
  [key : Keys \cup {NoKey}, action : Actions, price : Values, quantity : Values,
   display : Values]

Patches ==
  [id : BOOLEAN, clear : BOOLEAN,
   fields : [PatchFields -> {Absent, 0, 1}]]
Names == {"off", "observe", "OBSERVE", "Reject", "unspecified", "not_a_str"}

Coefficients == {0, 1, 5, 25, 100, 105, 999, 1000, 1005, 9995, 10005, 19995}
Decimals ==
  [kind : {"Decimal", "float"}, exp : -6 .. 0,
   coef : Coefficients \cup {-c : c \in Coefficients}]
NoDecimals == [kind : {"bool", "not_finite"}, coef : {1}, exp : {0}]
Conversions == [field : DOMAIN ScaleOf, amount : Decimals \cup NoDecimals]

BuilderCalls ==
  [rpc : {"SubmitOrder"}, args : Identities \cup Deliveries \cup Amounts]
    \cup [rpc : {"SubmitBasket"}, args : Baskets]
    \cup [rpc : {"ModifyOrder"}, args : Modifies]
    \cup [rpc : {"PatchMember"}, args : Patches]
    \cup [rpc : {"SetCashLimit"}, args : {Absent, 0, 1}]
    \cup [rpc : DOMAIN ModeNames, args : Names]
    \cup [rpc : {"convert"}, args : Conversions]

BuilderInit == call \in BuilderCalls /\ local = "unbuilt" /\ verdict = "unsent"

SubmitOrder ==
  /\ call.rpc = "SubmitOrder" /\ local = "unbuilt"
  /\ local' = SubmitFault(call.args) /\ UNCHANGED <<call, verdict>>
SubmitBasket ==
  /\ call.rpc = "SubmitBasket" /\ local = "unbuilt"
  /\ local' = BasketFault(call.args).fault /\ UNCHANGED <<call, verdict>>
ModifyOrder ==
  /\ call.rpc = "ModifyOrder" /\ local = "unbuilt"
  /\ local' = ModifyFault(call.args) /\ UNCHANGED <<call, verdict>>
PatchMember ==
  /\ call.rpc = "PatchMember" /\ local = "unbuilt"
  /\ local' = PatchFault(call.args) /\ UNCHANGED <<call, verdict>>
SetCashLimit ==
  /\ call.rpc = "SetCashLimit" /\ local = "unbuilt"
  /\ local' = "none" /\ UNCHANGED <<call, verdict>>
SetMode ==
  /\ call.rpc \in DOMAIN ModeNames /\ local = "unbuilt"
  /\ local' = ModeFault(call.rpc, call.args) /\ UNCHANGED <<call, verdict>>

(* price_to_cents, quantity_to_sub_mw, eur_to_cents, eur_to_q8.            *)
Convert ==
  /\ call.rpc = "convert" /\ local = "unbuilt"
  /\ local' = ScaleFault(call.args.field, call.args.amount)
  /\ UNCHANGED <<call, verdict>>

(* Only what was built is sent; a conversion sends nothing.                *)
Taken ==
  CASE call.rpc = "SubmitOrder"  -> GatewayTakesOrder(SubmitRequest(call.args))
    [] call.rpc = "SubmitBasket" -> GatewayTakesBasket(call.args)
    [] call.rpc = "ModifyOrder"  -> GatewayTakesModify(ModifyRequest(call.args))
    [] call.rpc = "PatchMember"  -> GatewayTakesPatch(call.args)
    [] call.rpc = "SetCashLimit" -> TRUE
    [] OTHER                     -> GatewayTakesMode(call.rpc, call.args)
Judge ==
  /\ local = "none" /\ verdict = "unsent" /\ call.rpc # "convert"
  /\ verdict' = IF Taken THEN "taken" ELSE "refused"
  /\ UNCHANGED <<call, local>>

BuilderNext ==
  \/ SubmitOrder \/ SubmitBasket \/ ModifyOrder
  \/ PatchMember \/ SetCashLimit \/ SetMode \/ Convert
  \/ Judge
BuilderSpec == BuilderInit /\ [][BuilderNext]_builderVars

-----------------------------------------------------------------------------
(* Properties.                                                             *)

(* "All of these mirror rules the gateway also enforces" (submit_order):   *)
(* what a rule of the gateway's is cited for, the gateway would refuse.    *)
NeverStricter ==
  /\ call.rpc = "SubmitOrder" /\ local \notin {"unbuilt", "none"} \cup OwnChecks
       => ~GatewayTakesOrder(SubmitRequest(call.args))
  /\ call.rpc = "SubmitBasket" /\ local \notin {"unbuilt", "none"} \cup OwnChecks
       => ~GatewayTakesBasket(call.args)
  /\ call.rpc = "ModifyOrder" /\ local \in {"restatement", "no_size", "display_size"}
       => ~GatewayTakesModify(ModifyRequest(call.args))
  /\ call.rpc = "PatchMember" /\ local = "exclusive" => ~GatewayTakesPatch(call.args)

(* A request whose enums are all named, and which the local checks passed, *)
(* breaks none of the rules they mirror.                                   *)
Named(a) == a.type # "ORDER_TYPE_UNSPECIFIED" /\ a.exe # "EXE_UNSPECIFIED"
CheckedIsTaken ==
  verdict = "refused" =>
    \/ call.rpc = "SubmitOrder" /\ ~Named(call.args)
    \/ call.rpc = "ModifyOrder" /\ call.args.action = "MODIFY_UNSPECIFIED"

(* "a refusal names the order's index": the order named is one to blame,   *)
(* for itself, for its key or for its restriction.                         *)
NamesOffender ==
  call.rpc = "SubmitBasket" /\ local # "unbuilt"
    /\ BasketFault(call.args).index # 0 =>
    LET b == call.args
        i == BasketFault(b).index
    IN \/ OrderFault(b.orders[i]) # "none"
       \/ \E j \in 1 .. i - 1 : b.orders[j].key = b.orders[i].key
       \/ b.inst = "linked" /\ b.orders[i].exe # "FOK"

(* Zero is not the same as nothing: a MODIFY restates a price of zero, a   *)
(* patch of zero takes an allocation away and one left out leaves it, and  *)
(* a cap of zero stops a pool that no cap would leave to the exchange.     *)
WireMeansCall ==
  /\ call.rpc = "ModifyOrder" /\ local = "none" =>
       /\ ModifyRequest(call.args).price = call.args.price
       /\ ModifyRequest(call.args).quantity = call.args.quantity
  /\ call.rpc = "PatchMember" /\ local = "none" =>
       \A member \in [PatchFields -> {0, 1}], f \in PatchFields :
         AfterPatch(member, call.args)[f] =
           IF call.args.fields[f] # Absent THEN call.args.fields[f]
           ELSE IF f = "max_slot_position" /\ call.args.clear THEN Absent
           ELSE member[f]
  /\ call.rpc = "SetCashLimit" => AfterCap(call.args) = call.args

(* "Values that are not an exact multiple of the tick are rejected, not    *)
(* rounded": for an amount of no more digits than the decimal context      *)
(* holds, a wire integer is the amount, a tick fault is none of the SDK's  *)
(* making, and what came from the wire goes back to what it was.           *)
ConvertedExactly ==
  call.rpc = "convert" /\ WithinContext(call.args.amount) =>
    LET f == call.args.field
        a == call.args.amount
    IN /\ local = "none" => /\ IsExact(f, a, ToWire(f, a))
                            /\ ScaleFault(f, FromWire(f, a.coef)) = "none"
                            /\ ToWire(f, FromWire(f, a.coef)) = a.coef
       /\ local = "tick" => ~HasTick(f, a)
=============================================================================
