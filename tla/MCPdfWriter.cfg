CONSTANTS
  StartIds <- MCStartIds
  BodyLens <- MCBodyLens
  MaxId <- MCMaxId
  NoRef = NoRef
  NoFile = NoFile
SPECIFICATION Spec
INVARIANT TypeOK
 
INVARIANT TrailerMatchesXref
