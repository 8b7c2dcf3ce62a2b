------------------------- MODULE MCBackOfficeProofs -------------------------
(***************************************************************************)
(* That the components around the order desk keep, side by side, what each *)
(* was shown to keep on its own: every behaviour of MCBackOffice is one of *)
(* each component, so the theorems of the components carry over to it.     *)
(***************************************************************************)
EXTENDS MCBackOffice, BackOfficeProofs, CatalogProofs, TillProofs

LoopsSpec == AutoInit /\ [][AutoNext]_autoVars

\* Each component's share of a step is a step of its own or none.
LEMMA PurchasingGoesOn == Next => [AutoNext]_autoVars
  <1>1. Loops \/ Buttons => AutoNext
    BY Zenon DEF Loops, Buttons, AutoNext
  <1>2. Next => AutoStep \/ UNCHANGED autoVars
    BY DEF Next
  <1> QED
    BY <1>1, <1>2 DEF AutoStep

LEMMA DrawersGoOn == Next => [DrawerNext]_drawerVars
  BY DEF Next

LEMMA SyncGoesOn == Next => [SyncNext]_syncVars
  BY DEF Next

LEMMA CatalogGoesOn == Next => [CatalogNext]_catalogVars
  BY DEF Next

LEMMA BoardsGoOn == Next => [BoardNext]_boardVars
  BY ActorsAssumption DEF Next, BoardStep, KitchenPart, BoardsPart, BoardNext

LEMMA StockGoesOn == Next => [StockNext]_stockVars
  <1>1. PhotosPart => StockNext
    <2>1. ASSUME NEW c \in Clerks, NEW p \in Products, NEW t \in Tenants,
                 CreateProduct(c, p, t, NoCategory, 0)
          PROVE  GoodsNext(c)
      BY <2>1 DEF GoodsNext
    <2> QED
      BY <2>1 DEF PhotosPart, StockNext
  <1>2. GoodsPart => StockNext
    BY DEF GoodsPart, StockNext
  <1> QED
    BY <1>1, <1>2 DEF Next, StockStep

LEMMA AccountsGoOn == Next => [AccountNext]_accountVars
  <1>1. SignInsPart => AccountNext
    <2>1. Register(m3, 2) => StaffChange(m3)
      BY ActorsAssumption DEF StaffChange
    <2> QED
      BY <2>1, ActorsAssumption DEF SignInsPart, AccountNext
  <1>2. RolesPart => AccountNext
    BY DEF RolesPart, AccountNext
  <1> QED
    BY <1>1, <1>2 DEF Next, AccountStep

LEMMA PricingGoesOn == Next => [PricingNext]_pricingVars
  BY DEF Next

LEMMA ReportsGoOn == Next => [ReportNext]_reportVars
  BY DEF Next, ReportStep, SalesPart, ReportNext

LEMMA TillsGoOn == Next => [OutboxNext]_tillVars
  BY DEF Next

LEMMA AllRest ==
    UNCHANGED vars =>
       /\ UNCHANGED autoVars /\ UNCHANGED drawerVars /\ UNCHANGED syncVars
       /\ UNCHANGED catalogVars /\ UNCHANGED boardVars /\ UNCHANGED stockVars
       /\ UNCHANGED accountVars /\ UNCHANGED pricingVars /\ UNCHANGED reportVars
       /\ UNCHANGED tillVars
  BY DEF vars

\* Side by side, each component goes on as it does on its own.
THEOREM PartsGoOn ==
    Spec => /\ LoopsSpec /\ DrawerSpec /\ SyncSpec /\ CatalogSpec /\ BoardSpec /\ StockSpec
            /\ AccountSpec /\ PricingSpec /\ ReportSpec /\ OutboxSpec
  <1>1. Init => /\ AutoInit /\ DrawerInit /\ SyncInit /\ CatalogInit /\ BoardInit /\ StockInit
                /\ AccountInit /\ PricingInit /\ ReportInit /\ OutboxInit
    BY DEF Init
  <1>2. [Next]_vars =>
           /\ [AutoNext]_autoVars /\ [DrawerNext]_drawerVars /\ [SyncNext]_syncVars
           /\ [CatalogNext]_catalogVars /\ [BoardNext]_boardVars /\ [StockNext]_stockVars
           /\ [AccountNext]_accountVars /\ [PricingNext]_pricingVars /\ [ReportNext]_reportVars
           /\ [OutboxNext]_tillVars
    <2> SUFFICES ASSUME [Next]_vars
                 PROVE  /\ [AutoNext]_autoVars /\ [DrawerNext]_drawerVars /\ [SyncNext]_syncVars
                        /\ [CatalogNext]_catalogVars /\ [BoardNext]_boardVars
                        /\ [StockNext]_stockVars /\ [AccountNext]_accountVars
                        /\ [PricingNext]_pricingVars /\ [ReportNext]_reportVars
                        /\ [OutboxNext]_tillVars
      OBVIOUS
    <2>1. CASE Next
      BY <2>1, PurchasingGoesOn, DrawersGoOn, SyncGoesOn, CatalogGoesOn, BoardsGoOn, StockGoesOn,
         AccountsGoOn, PricingGoesOn, ReportsGoOn, TillsGoOn, Zenon
    <2>2. CASE UNCHANGED vars
      BY <2>2, AllRest, Zenon
    <2> QED
      BY <2>1, <2>2
  <1> QED
    BY <1>1, <1>2, PTL DEF Spec, LoopsSpec, DrawerSpec, SyncSpec, CatalogSpec, BoardSpec,
                           StockSpec, AccountSpec, PricingSpec, ReportSpec, OutboxSpec

\* The state of every component is of its type.
THEOREM BackOfficeIsTyped == Spec => []TypesOK
  <1>1. LoopInv => AutoTypeOK
    BY DEF LoopInv
  <1>2. LoopsSpec => []LoopInv
    BY AutoBegins, GeneratorsStep, PTL DEF LoopsSpec
  <1>3. /\ AutoTypeOK /\ DrawerTypeOK /\ SyncTypeOK /\ CatalogTypeOK /\ BoardTypeOK /\ StockTypeOK
        /\ AccountTypeOK /\ PricingTypeOK /\ ReportTypeOK /\ OutboxTypeOK
        => TypesOK
    BY DEF TypesOK
  <1> QED
    BY <1>1, <1>2, <1>3, PartsGoOn, DrawerTypes, SyncTypes, CatalogTypes, KitchenTypes, StockTypes,
       AccountTypes, PricingTypes, BooksTypeCorrect, OutboxTypes, PTL

\* What was proved of each component on its own holds of all of them together: drawers,
\* synced events, deltas, boards, stock, sign-ins, prices, reports, tills and the drafts
\* of the loops.
THEOREM BackOfficeIsSafe ==
    Spec => /\ [](LoopDraftsDisjoint /\ DeliveryEndsNeed)
            /\ [](OnlyRacesOpenTwice /\ QuietCountsAreRight) /\ ClosedDrawersAreFinal
            /\ [](EffectsHappenOnce /\ LogIsTrue /\ SinglePaymentsAreBookedOnce)
            /\ []DeltasAddUp
            /\ []QuietBoardsAreCurrent /\ ForwardOnly
            /\ [](MovementsExplainStock /\ ShownImagesExist)
            /\ []OneTokenPerSignIn /\ []PricesAddUp /\ []ReportsAgreeOnHistory
  <1>1. LoopInv => LoopDraftsDisjoint /\ DeliveryEndsNeed
    BY NeedEnds DEF LoopInv
  <1>2. LoopsSpec => []LoopInv
    BY AutoBegins, GeneratorsStep, PTL DEF LoopsSpec
  <1> QED
    BY <1>1, <1>2, PartsGoOn, OnlyRacesOpenDrawersTwice, QuietCounts, ClosedDrawersStayFinal,
       EventsHappenOnce, LogsAreTrue, TillsBookOnce, TerminalsHaveTheCatalog, BoardsCatchUp,
       OrdersMoveForward, MovementsAddUp, LiveImagesAreOnDisk, SignInsHoldOneToken, PricesAreRight,
       ReportsAreConsistent, PTL
=============================================================================
