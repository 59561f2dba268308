--------------------------- MODULE ComponentsProofs ---------------------------
(* The instance that TLC checks the separate components in runs each of them  *)
(* as its own specification allows: so what is proved of a component holds in *)
(* the instance.                                                              *)
EXTENDS MCComponents, TelemetryProofs, ClientProofs, AdministrationProofs

-----------------------------------------------------------------------------
(* A run of the instance is a run of every component: the one that was chosen *)
(* takes its steps, the others rest (MCComponents, Init and Next).            *)
EachComponent ==
    /\ HSpec /\ EvSpec /\ TSpec /\ DSpec /\ FSpec /\ RSpec /\ WSpec
    /\ BSpec /\ NSpec /\ YSpec /\ GSpec /\ XSpec /\ PSpec /\ ASpec
    /\ USpec /\ MSpec /\ LSpec /\ KSpec /\ QSpec

THEOREM ComponentsRunAsSpecified == Spec => EachComponent
<1>1. Init => /\ HInit /\ EvInit /\ TInit /\ DInit /\ FInit /\ RInit /\ WInit /\ BInit /\ NInit /\ YInit
              /\ GInit /\ XInit /\ PInit /\ AInit /\ UInit /\ MInit /\ LInit /\ KInit /\ QInit
  BY DEF Init
<1>2. [Next]_components => [HNext]_hysteresis
  BY DEF Next, components
<1>3. [Next]_components => [EvNext]_storm
  BY DEF Next, components
<1>4. [Next]_components => [TNext]_analytics
  BY DEF Next, components
<1>5. [Next]_components => [DNext]_dvars
  BY DEF Next, components
<1>6. [Next]_components => [FNext]_framing
  BY DEF Next, components
<1>7. [Next]_components => [RNext]_intake
  BY DEF Next, components
<1>8. [Next]_components => [WNext]_stream
  BY DEF Next, components
<1>9. [Next]_components => [BNext]_dashboard
  BY DEF Next, components
<1>10. [Next]_components => [NNext]_notices
  BY DEF Next, components
<1>11. [Next]_components => [YNext]_delta
  BY DEF Next, components
<1>12. [Next]_components => [GNext]_center
  BY DEF Next, components
<1>13. [Next]_components => [XNext]_layers
  BY DEF Next, components
<1>14. [Next]_components => [PNext]_period
  BY DEF Next, components
<1>15. [Next]_components => [ANext]_accounts
  BY DEF Next, components
<1>16. [Next]_components => [UNext]_walk
  BY DEF Next, components
<1>17. [Next]_components => [MNext]_upkeep
  BY DEF Next, components
<1>18. [Next]_components => [LNext]_limiter
  BY DEF Next, components
<1>19. [Next]_components => [KNext]_knowledge
  BY DEF Next, components
<1>20. [Next]_components => [QNext]_copilot
  BY DEF Next, components
<1> QED BY <1>1, <1>2, <1>3, <1>4, <1>5, <1>6, <1>7, <1>8, <1>9,
           <1>10, <1>11, <1>12, <1>13, <1>14, <1>15, <1>16, <1>17, <1>18, <1>19, <1>20, PTL
    DEF Spec, EachComponent, HSpec, EvSpec, TSpec, DSpec, FSpec, RSpec, WSpec, BSpec,
        NSpec, YSpec, GSpec, XSpec, PSpec, ASpec, USpec, MSpec, LSpec, KSpec, QSpec

(* The state of the component that runs has its type, in every state.         *)
THEOREM ComponentsTypeCorrect == Spec => []TypeOK
<1> DEFINE AllTypes ==
      /\ HTypeOK /\ EvTypeOK /\ TTypeOK /\ DTypeOK /\ FTypeOK /\ RTypeOK /\ WTypeOK
      /\ BTypeOK /\ NTypeOK /\ YTypeOK /\ GTypeOK /\ XTypeOK /\ PTypeOK /\ ATypeOK
      /\ UTypeOK /\ MTypeOK /\ LTypeOK /\ KTypeOK /\ QTypeOK
       Chosen == component \in Names
<1>1. Init => Chosen
  BY DEF Init
<1>2. Chosen /\ [Next]_components => Chosen'
  BY DEF Next, components
<1>3. Chosen /\ AllTypes => TypeOK
  BY DEF TypeOK, Names
<1>4. EachComponent => []AllTypes
  BY HysteresisTypeCorrect, StormTypeCorrect, AnalyticsTypeCorrect, DriversTypeCorrect, FramingTypeCorrect,
     IntakeTypeCorrect, StreamTypeCorrect, DashboardTypeCorrect, NoticesTypeCorrect,
     DeltaTypeCorrect, CenterTypeCorrect, FallbackTypeCorrect, ReportTypeCorrect, AccountsTypeCorrect,
     WalkTypeCorrect, UpkeepTypeCorrect, LimiterTypeCorrect, KnowledgeTypeCorrect, CopilotTypeCorrect, PTL
     DEF EachComponent, AllTypes
<1> HIDE DEF AllTypes, Chosen
<1> QED BY <1>1, <1>2, <1>3, <1>4, ComponentsRunAsSpecified, PTL DEF Spec
=============================================================================
