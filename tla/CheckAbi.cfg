SPECIFICATION CheckSpec
CONSTANT N = 5
INVARIANTS MessageMeansSuccess  SuspectsExact
