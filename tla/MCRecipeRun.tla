--------------------------- MODULE MCRecipeRun ---------------------------
(* Recipes of three stages. With the second naming one id is used twice and  *)
(* one name is nobody's id.                                                  *)
EXTENDS RecipeRun

CONSTANTS a, b, c

OneNameEach == {<<a, b, c>>}
AllNamings == {<<a, b, c>>, <<a, b, a>>}
==========================================================================
