SPECIFICATION Spec
CONSTANT Schedule <- TwoAndOne
INVARIANTS TypeOK SuccessIsWhole ExitZeroIsClean NoCutRunPublished KickReadsTonight
